---------------------------- MODULE Spec2Model ----------------------------
(***************************************************************************)
(* FETS-POINT: the session calendar's capacity check and the roster's      *)
(* schedule store, version ledger and request workflow, as state machines  *)
(* over the remote tables and each browser session's React state.          *)
(***************************************************************************)
EXTENDS Integers, Sequences, FiniteSets, TLC

(***************************************************************************)
(* Bounds of the model.                                                    *)
(***************************************************************************)
\* largest candidate count typed into the calendar form
MaxCount == 44
\* rows the sessions table may hold
MaxSessions == 2
\* handleSubmit invocations in one behaviour of the calendar
MaxSubmits == 3

(***************************************************************************)
(* Text: a string is a sequence of one-character strings, so that          *)
(* formatting and parsing are computed and not assumed.                    *)
(***************************************************************************)
DigitChar == <<"0", "1", "2", "3", "4", "5", "6", "7", "8", "9">>

RECURSIVE natToString(_)
\* Number.prototype.toString for a non-negative integer
natToString(n) ==
    IF n < 10 THEN <<DigitChar[n + 1]>>
    ELSE natToString(n \div 10) \o <<DigitChar[(n % 10) + 1]>>

\* Number.prototype.toString, as a template literal interpolates a number
toString(n) == IF n < 0 THEN <<"-">> \o natToString(-n) ELSE natToString(n)

\* an absent optional property of a result object
Undefined == <<>>

DigitValue(ch) == CHOOSE d \in 0 .. 9 : DigitChar[d + 1] = ch
IsDigit(ch) == \E d \in 0 .. 9 : DigitChar[d + 1] = ch

RECURSIVE leadingDigits(_, _)
\* the value of the longest prefix of digits of s, read after the value acc
leadingDigits(s, acc) ==
    IF s = <<>> \/ ~IsDigit(Head(s)) THEN acc
    ELSE leadingDigits(Tail(s), acc * 10 + DigitValue(Head(s)))

\* parseInt: an optional sign and the leading digits; NaN when there is no digit
parseInt(s) ==
    LET neg == s # <<>> /\ Head(s) = "-"
        body == IF neg THEN Tail(s) ELSE s
    IN  IF body = <<>> \/ ~IsDigit(Head(body))
        THEN [isNaN |-> TRUE, value |-> 0]
        ELSE [isNaN |-> FALSE,
              value |-> IF neg THEN -leadingDigits(body, 0) ELSE leadingDigits(body, 0)]

(***************************************************************************)
(* utils/sessionUtils: validateSessionCapacity                             *)
(***************************************************************************)
MAX_CAPACITY == 40
WARNING_THRESHOLD == 30

ExceedsText(max) ==
    <<"Session exceeds maximum capacity of ">> \o toString(max) \o <<" candidates">>

ApproachingText(c, max) ==
    <<"Session approaching capacity (">> \o toString(c) \o <<"/">>
        \o toString(max) \o <<" candidates)">>

\* mutant: the capacity comparison is off by one (>= for >)
validateSessionCapacity_offByOne(candidateCount) ==
    IF candidateCount >= MAX_CAPACITY
    THEN [isValid |-> FALSE, warning |-> Undefined, error |-> ExceedsText(MAX_CAPACITY)]
    ELSE IF candidateCount >= WARNING_THRESHOLD
    THEN [isValid |-> TRUE,
          warning |-> ApproachingText(candidateCount, MAX_CAPACITY),
          error |-> Undefined]
    ELSE [isValid |-> TRUE, warning |-> Undefined, error |-> Undefined]

validateSessionCapacity(candidateCount) ==
    IF candidateCount > MAX_CAPACITY
    THEN [isValid |-> FALSE, warning |-> Undefined, error |-> ExceedsText(MAX_CAPACITY)]
    ELSE IF candidateCount >= WARNING_THRESHOLD
    THEN [isValid |-> TRUE,
          warning |-> ApproachingText(candidateCount, MAX_CAPACITY),
          error |-> Undefined]
    ELSE [isValid |-> TRUE, warning |-> Undefined, error |-> Undefined]

(***************************************************************************)
(* State.                                                                  *)
(***************************************************************************)
VARIABLES
    \* ---- FetsCalendar ----
    sessionsDB,        \* remote table sessions: set of [id, candidate_count]
    sessions,          \* useState sessions: the rows loadSessions fetched
    formData,          \* useState formData.candidate_count
    editingSession,    \* useState editingSession: a row id, or 0 for null
    showModal,         \* useState showModal
    calNotification,   \* useState notification: [type, message] or NoNotification
    capacityChecked,   \* the last validateSessionCapacity call: [count, result] or NoCheck
    calLog,            \* history: handleSubmit invocations and the remote writes issued
    \* ---- FetsRoster: the remote tables ----
    schedulesDB,       \* roster_schedules: set of rows
    versionsDB,        \* roster_versions: rows in creation order, a row's id its index
    requestsDB,        \* leave_requests: set of rows
    scheduleSeq,       \* the last id roster_schedules handed out
    \* ---- FetsRoster: one browser session per signed-in user ----
    ui,                \* the component's React state, per user
    run,               \* the handler in progress, per user: position and captured values
    \* ---- history and bounds ----
    log,               \* per user, what the last handler did to the tables
    budget,            \* handler invocations and remote failures still allowed
    \* ---- ChecklistManagement ----
    templateItemsDB,   \* checklist_template_items: set of rows
    instancesDB,       \* checklist_instances: set of rows
    instanceItemsDB,   \* checklist_instance_items: set of rows
    ck,                \* the component's React state and handler position, per user
    \* ---- CandidateTracker ----
    candidatesDB,      \* candidates: set of rows
    uploadsDB,         \* candidate_roster_uploads: its rows, and the bounds of the tracker
    tracker,           \* the component's React state and handler position, per user
    candidateData,     \* the header, the data line and the record of one loop body
    \* ---- the date formatter ----
    dateStr,           \* two instants and the strings formatDateForIST gave for them
    \* ---- the service worker ----
    sw                 \* its cache, the puts under way and the last fetch it answered

calVars == <<sessionsDB, sessions, formData, editingSession, showModal,
             calNotification, capacityChecked, calLog>>

rosterVars == <<schedulesDB, scheduleSeq, versionsDB, requestsDB, ui, run, log, budget>>

checklistVars == <<templateItemsDB, instancesDB, instanceItemsDB, ck>>

trackerVars == <<candidatesDB, uploadsDB, tracker>>

vars == <<calVars, rosterVars, checklistVars, trackerVars, candidateData, dateStr, sw>>

\* what the handlers of one component leave alone: the state of the others
besideCalendar == <<rosterVars, checklistVars, trackerVars, candidateData, dateStr, sw>>
besideRoster == <<calVars, checklistVars, trackerVars, candidateData, dateStr, sw>>
besideChecklists == <<calVars, rosterVars, trackerVars, candidateData, dateStr, sw>>
besideTracker == <<calVars, rosterVars, checklistVars, candidateData, dateStr, sw>>

NoNotification == [type |-> "none", message |-> Undefined]
NoCheck == [count |-> 0, result |-> [isValid |-> TRUE, warning |-> Undefined, error |-> Undefined],
            done |-> FALSE]

Notify(type, message) == [type |-> type, message |-> message]

(***************************************************************************)
(* FetsCalendar                                                            *)
(***************************************************************************)
\* what the count input can hold: the digits of an integer, or nothing
RawCounts == {toString(n) : n \in -1 .. MaxCount} \cup {<<>>}

\* the boundary values of the capacity check, for the calendar's behaviours
CalRawCounts == {toString(n) : n \in {1, WARNING_THRESHOLD - 1, WARNING_THRESHOLD,
                                        MAX_CAPACITY, MAX_CAPACITY + 1, MaxCount}}

\* parseInt(e.target.value) || 1
parseCount(raw) ==
    LET n == parseInt(raw) IN IF n.isNaN \/ n.value = 0 THEN 1 ELSE n.value

InitCal ==
    /\ sessionsDB = {}
    /\ sessions = {}
    /\ formData = 1
    /\ editingSession = 0
    /\ showModal = FALSE
    /\ calNotification = NoNotification
    /\ capacityChecked = NoCheck
    /\ calLog = [submits |-> 0, writes |-> 0]

\* openModal(date): the form of a new session
openModalNew ==
    /\ ~showModal
    /\ editingSession' = 0
    /\ formData' = 1
    /\ showModal' = TRUE
    /\ UNCHANGED <<sessionsDB, sessions, calNotification, capacityChecked, calLog>>
    /\ UNCHANGED besideCalendar

\* openModal(date, session): the form of a listed session
openModalEdit(id) ==
    /\ ~showModal
    /\ \E s \in sessions :
        /\ s.id = id
        /\ editingSession' = id
        /\ formData' = s.candidate_count
    /\ showModal' = TRUE
    /\ UNCHANGED <<sessionsDB, sessions, calNotification, capacityChecked, calLog>>
    /\ UNCHANGED besideCalendar

\* the count input's onChange
onCountChange(raw) ==
    LET count == parseCount(raw)
        validation == validateSessionCapacity(count)
    IN  /\ showModal
        /\ formData' = count
        /\ capacityChecked' = [count |-> count, result |-> validation, done |-> TRUE]
        /\ calNotification' =
              IF validation.warning # Undefined THEN Notify("warning", validation.warning)
              ELSE IF validation.error # Undefined THEN Notify("error", validation.error)
              ELSE calNotification
        /\ UNCHANGED <<sessionsDB, sessions, editingSession, showModal, calLog>>
    /\ UNCHANGED besideCalendar

\* the sessions table after handleSubmit's write
SessionsAfterWrite(count) ==
    IF editingSession # 0
    THEN {IF s.id = editingSession THEN [s EXCEPT !.candidate_count = count] ELSE s
              : s \in sessionsDB}
    ELSE sessionsDB \cup {[id |-> Cardinality(sessionsDB) + 1, candidate_count |-> count]}

\* mutant: handleSubmit without the early return on an invalid capacity
handleSubmit_noBlock(writeOk, loadOk) ==
    LET validation == validateSessionCapacity(formData)
        db == IF writeOk THEN SessionsAfterWrite(formData) ELSE sessionsDB
    IN  /\ showModal
        /\ calLog.submits < MaxSubmits
        /\ editingSession # 0 \/ Cardinality(sessionsDB) < MaxSessions
        /\ capacityChecked' = [count |-> formData, result |-> validation, done |-> TRUE]
        /\ sessionsDB' = db
        /\ calLog' = [submits |-> calLog.submits + 1, writes |-> calLog.writes + 1]
        /\ IF writeOk
           THEN /\ showModal' = FALSE
                /\ editingSession' = 0
                /\ formData' = 1
                /\ sessions' = IF loadOk THEN db ELSE {}
                /\ calNotification' =
                      IF loadOk
                      THEN Notify("success", IF editingSession # 0
                                             THEN <<"Session updated successfully!">>
                                             ELSE <<"Session created successfully!">>)
                      ELSE Notify("error", <<"Failed to load sessions">>)
           ELSE /\ calNotification' = Notify("error", <<"Failed to save session">>)
                /\ UNCHANGED <<sessions, formData, editingSession, showModal>>
    /\ UNCHANGED besideCalendar

\* handleSubmit, with the outcome of its remote write and of loadSessions
handleSubmit(writeOk, loadOk) ==
    LET validation == validateSessionCapacity(formData)
        db == IF writeOk THEN SessionsAfterWrite(formData) ELSE sessionsDB
    IN  /\ showModal
        /\ calLog.submits < MaxSubmits
        /\ editingSession # 0 \/ Cardinality(sessionsDB) < MaxSessions
        /\ capacityChecked' = [count |-> formData, result |-> validation, done |-> TRUE]
        /\ IF ~validation.isValid
           THEN /\ calNotification' = Notify("error", validation.error)
                /\ calLog' = [calLog EXCEPT !.submits = @ + 1]
                /\ UNCHANGED <<sessionsDB, sessions, formData, editingSession, showModal>>
           ELSE /\ sessionsDB' = db
                /\ calLog' = [submits |-> calLog.submits + 1, writes |-> calLog.writes + 1]
                /\ IF writeOk
                   THEN \* closeModal(), then loadSessions()
                        /\ showModal' = FALSE
                        /\ editingSession' = 0
                        /\ formData' = 1
                        /\ sessions' = IF loadOk THEN db ELSE {}
                        /\ calNotification' =
                              IF loadOk
                              THEN Notify("success", IF editingSession # 0
                                                     THEN <<"Session updated successfully!">>
                                                     ELSE <<"Session created successfully!">>)
                              ELSE Notify("error", <<"Failed to load sessions">>)
                   ELSE /\ calNotification' = Notify("error", <<"Failed to save session">>)
                        /\ UNCHANGED <<sessions, formData, editingSession, showModal>>
    /\ UNCHANGED besideCalendar

\* closeModal, from the form's cancel button
closeModal ==
    /\ showModal
    /\ showModal' = FALSE
    /\ editingSession' = 0
    /\ formData' = 1
    /\ UNCHANGED <<sessionsDB, sessions, calNotification, capacityChecked, calLog>>
    /\ UNCHANGED besideCalendar

(***************************************************************************)
(* FetsRoster: bounds and the fixed part of the world.                     *)
(***************************************************************************)
\* months the roster can display (one year)
NumMonths == 2
\* days in each month of the model's calendar: a week, so that a rest day falls in it
DaysPerMonth == 7
\* versions the ledger of month 1 may hold before the behaviour starts
MaxInitVersions == 8
\* clicks (handler invocations) of a single session
MaxSeqOps == 4
\* clicks (handler invocations) shared by two concurrent sessions
MaxConcOps == 3
\* remote calls that may fail in one behaviour of a single session
MaxFailures == 1
\* remote calls that may fail in one behaviour of two concurrent sessions
MaxConcFailures == 0

\* the signed-in users (auth ids)
Users == {"u1", "u2"}

\* staff_profiles: read-only for the roster
StaffProfilesDB ==
    {[id |-> "p1", user_id |-> "u1", role |-> "super_admin"],
     [id |-> "p2", user_id |-> "u2", role |-> "admin"]}

\* the browser's offset from UTC in minutes: New York, Kolkata
TzOffsets == {-300, 330}

\* the shift codes the behaviours choose among, of SHIFT_CODES
ShiftInputs == {"D", "OT"}

\* the grid cells the behaviours click: the first and the last day of the month
EditDays == {1, DaysPerMonth}

(***************************************************************************)
(* Dates.  A calendar date is the number of its day, months of             *)
(* DaysPerMonth days following each other; an instant is a number of       *)
(* minutes, day g starting in UTC at minute g * 1440.                      *)
(***************************************************************************)
DayOf(month, day) == (month - 1) * DaysPerMonth + day

\* new Date(year, month, day): midnight of the day on the browser's clock
localMidnight(tzOffset, date) == date * 1440 - tzOffset

\* date.toISOString().split('T')[0]: the UTC calendar date of an instant
toISODate(instant) == instant \div 1440

\* mutant: the calendar date of the instant in UTC
formatDateForIST_utc(instant) == instant \div 1440

\* formatDateForIST: the calendar date of an instant in Asia/Kolkata (UTC+5:30)
formatDateForIST(instant) == (instant + 330) \div 1440

\* no date has been formatted
NoEntry == [status |-> 0, type |-> "none"]

\* what respondWith is given before any event
NoAnswer == [from |-> "none", response |-> NoEntry]

\* no service worker: an empty cache, no put under way, no event answered
NoWorker ==
    [state |-> "none", cache |-> [url \in {"/", "/bundle.js", "/app", "/api"} |-> NoEntry],
     puts |-> {}, handled |-> 0,
     last |-> [url |-> "", destination |-> "", hit |-> FALSE, network |-> "none",
               answer |-> NoAnswer]]

NoDateStr == [dates |-> <<0, 0>>, strs |-> <<0, 0>>, done |-> FALSE]

\* the instants callers hand to formatDateForIST: a minute of a day on the clock of a
\* browser in New York or in Kolkata
CallerInstants ==
    {localMidnight(tzOffset, day) + minute :
        tzOffset \in {-300, 330}, day \in {1, 2}, minute \in {0, 329, 330, 1109, 1110, 1439}}

\* new Date(year, month, 1) and new Date(year, month + 1, 0)
startOfMonth(tzOffset, month) == localMidnight(tzOffset, DayOf(month, 1))
endOfMonth(tzOffset, month) == localMidnight(tzOffset, DayOf(month, DaysPerMonth))

\* getDaysInMonth: the local midnights of the displayed month, in order
getDaysInMonth(tzOffset, month) ==
    [i \in 1 .. DaysPerMonth |-> localMidnight(tzOffset, DayOf(month, i))]

(***************************************************************************)
(* Version numbers.                                                        *)
(***************************************************************************)
\* String.prototype.padStart(2, '0')
padStart2(s) ==
    IF Len(s) >= 2 THEN s ELSE IF Len(s) = 1 THEN <<"0">> \o s ELSE <<"0", "0">>

RECURSIVE replaceFirst(_, _)
\* String.prototype.replace(pat, ''): the first occurrence of pat removed
replaceFirst(s, pat) ==
    IF Len(s) < Len(pat) THEN s
    ELSE IF SubSeq(s, 1, Len(pat)) = pat THEN SubSeq(s, Len(pat) + 1, Len(s))
    ELSE <<Head(s)>> \o replaceFirst(Tail(s), pat)

\* mutant: the next number is taken from the number of cached versions
getNextVersionNumber_byCount(versions) ==
    <<"v", ".">> \o padStart2(toString(Len(versions)))

\* getNextVersionNumber, of the cached versions (newest first)
getNextVersionNumber(versions) ==
    IF Len(versions) = 0 THEN <<"v", ".", "0", "1">>
    ELSE LET latestVersion ==
                 IF versions[1].version_number = <<>> THEN <<"v", ".", "0", "0">>
                 ELSE versions[1].version_number
             versionNum == parseInt(replaceFirst(latestVersion, <<"v", ".">>))
         IN  IF versionNum.isNaN THEN <<"v", ".", "N", "a", "N">>
             ELSE <<"v", ".">> \o padStart2(toString(versionNum.value + 1))

(***************************************************************************)
(* The shapes of the roster's state.                                       *)
(***************************************************************************)
NoEdit == [profileId |-> "", date |-> 0]
NoRequest == [id |-> 0, user_id |-> "", request_type |-> "", requested_date |-> 0,
              swap_with_user_id |-> "", status |-> "", approved_by |-> ""]
NoRosterNotification == [type |-> "none", message |-> ""]
\* overtime_hours of a row inserted without it
NullHours == -1

\* the component before its first loadData has returned
UiMounting(tzOffset) ==
    [tz |-> tzOffset, currentDate |-> 1, schedules |-> {}, staffProfiles |-> {},
     requests |-> {}, versions |-> <<>>, currentVersion |-> 0, loading |-> TRUE,
     selectedEdit |-> NoEdit, showEditModal |-> FALSE,
     selectedRequest |-> NoRequest, showApprovalModal |-> FALSE,
     notification |-> NoRosterNotification]

\* a handler's position: idle, or waiting for one of its remote calls
RunIdle == [pc |-> "idle", op |-> "none", isSuperAdmin |-> FALSE,
            nextVersionNumber |-> <<>>, success |-> ""]
RunMount == [RunIdle EXCEPT !.pc = "reload", !.op = "mount"]
RunOff == [RunIdle EXCEPT !.pc = "off"]

NoLog == [op |-> "none", wrote |-> "none", storeBefore |-> {}, storeAfter |-> {},
          key |-> NoEdit, shift |-> "", requestType |-> "", scope |-> 0,
          ledgerAtStart |-> 0,
          deactivate |-> "none", insert |-> "none", newId |-> 0]

\* the ledger of month 1 after k edits of a single session: v.01 .. v.0k, the last active
InitLedger(k) ==
    [i \in 1 .. k |->
        [id |-> i, month |-> 1, version_number |-> <<"v", ".", "0", DigitChar[i + 1]>>,
         created_by |-> "u1", is_active |-> (i = k)]]

\* leave_requests when the behaviour starts: three pending requests of p2, a half day
\* in month 1, a leave in month 2, and a shift swap with p1 in month 1
InitRequests ==
    {[id |-> 1, user_id |-> "p2", request_type |-> "half_day",
      requested_date |-> DayOf(1, 2), swap_with_user_id |-> "",
      status |-> "pending", approved_by |-> ""],
     [id |-> 2, user_id |-> "p2", request_type |-> "leave",
      requested_date |-> DayOf(2, 1), swap_with_user_id |-> "",
      status |-> "pending", approved_by |-> ""],
     [id |-> 3, user_id |-> "p2", request_type |-> "shift_swap",
      requested_date |-> DayOf(1, 1), swap_with_user_id |-> "p1",
      status |-> "pending", approved_by |-> ""]}

(***************************************************************************)
(* Derived values of a render.                                             *)
(***************************************************************************)
\* getCurrentUserStaffProfile: the cached profiles of the user (none or one)
currentStaffProfile(u) == {p \in ui[u].staffProfiles : p.user_id = u}
isSuperAdmin(u) == \E p \in currentStaffProfile(u) : p.role = "super_admin"
isAdmin(u) == (\E p \in currentStaffProfile(u) : p.role = "admin") \/ isSuperAdmin(u)

\* the page's buttons can be clicked: no handler runs, no spinner, no modal over them
PageReady(u) ==
    /\ run[u].pc = "idle"
    /\ ~ui[u].loading
    /\ ~ui[u].showEditModal
    /\ ~ui[u].showApprovalModal

\* the page is displayed with no modal over it; a handler may still be waiting for
\* a remote call
PageShown(u) ==
    /\ run[u].pc # "off"
    /\ ~ui[u].loading
    /\ ~ui[u].showEditModal
    /\ ~ui[u].showApprovalModal

\* the outcomes a remote call can have while failures are still allowed
Outcomes == IF budget.failures > 0 THEN {"ok", "error"} ELSE {"ok"}
Spend(outcome) ==
    [budget EXCEPT !.failures = IF outcome = "ok" THEN @ ELSE @ - 1]
StartOp(outcome) ==
    [ops |-> budget.ops - 1,
     failures |-> IF outcome = "ok" THEN budget.failures ELSE budget.failures - 1]

\* every table and counter of the remote service
remoteVars == <<schedulesDB, scheduleSeq, versionsDB, requestsDB>>

\* the rows of the ledger
VersionRows == {versionsDB[i] : i \in 1 .. Len(versionsDB)}
ActiveVersions(month) == {v \in VersionRows : v.month = month /\ v.is_active}

(***************************************************************************)
(* loadData                                                                *)
(***************************************************************************)
\* roster_schedules between the UTC dates of the month's first and last local midnight
LoadedSchedules(u) ==
    {s \in schedulesDB :
        /\ s.date >= toISODate(startOfMonth(ui[u].tz, ui[u].currentDate))
        /\ s.date <= toISODate(endOfMonth(ui[u].tz, ui[u].currentDate))}

\* .eq('is_active', true).maybeSingle(): the row; null for none, and for several
\* (error PGRST116, which loadData lets pass)
LoadedCurrentVersion(u) ==
    LET active == ActiveVersions(ui[u].currentDate)
    IN  IF Cardinality(active) = 1 THEN (CHOOSE v \in active : TRUE).id ELSE 0

\* the versions of the month, newest first
LoadedVersions(u) ==
    LET ids == {i \in 1 .. Len(versionsDB) : versionsDB[i].month = ui[u].currentDate}
        RECURSIVE desc(_)
        desc(S) == IF S = {} THEN <<>>
                   ELSE LET top == CHOOSE i \in S : \A j \in S : j <= i
                        IN  <<versionsDB[top]>> \o desc(S \ {top})
    IN  desc(ids)

\* all requests for a super admin (as the calling render saw the role), else the user's own
LoadedRequests(u) ==
    IF run[u].isSuperAdmin THEN requestsDB
    ELSE {r \in requestsDB : \E p \in StaffProfilesDB : p.user_id = u /\ r.user_id = p.id}

\* the state loadData leaves: all queries answered, or one of them failed
\* ("early": before the current version was set; "late": after)
UiAfterLoad(u, outcome) ==
    IF outcome = "ok"
    THEN [ui[u] EXCEPT !.staffProfiles = StaffProfilesDB,
                       !.schedules = LoadedSchedules(u),
                       !.currentVersion = LoadedCurrentVersion(u),
                       !.versions = LoadedVersions(u),
                       !.requests = LoadedRequests(u),
                       !.loading = FALSE]
    ELSE [ui[u] EXCEPT !.staffProfiles = {},
                       !.schedules = {},
                       !.requests = {},
                       !.versions = <<>>,
                       !.currentVersion =
                            IF outcome = "late" THEN LoadedCurrentVersion(u) ELSE @,
                       !.loading = FALSE,
                       !.notification = [type |-> "error", message |-> "Database error"]]

LoadOutcomes == IF budget.failures > 0 THEN {"ok", "early", "late"} ELSE {"ok"}

\* loadData returns to the handler that awaited it, which then reports success;
\* after a mount or a month change nothing follows it
loadData(u, outcome) ==
    /\ run[u].pc = "reload"
    /\ outcome \in LoadOutcomes
    /\ ui' = [ui EXCEPT ![u] =
                IF run[u].op \in {"mount", "navigate"} THEN UiAfterLoad(u, outcome)
                ELSE [UiAfterLoad(u, outcome) EXCEPT
                        !.notification = [type |-> "success", message |-> run[u].success]]]
    /\ run' = [run EXCEPT ![u] = RunIdle]
    /\ budget' = Spend(outcome)
    /\ UNCHANGED <<remoteVars, log>>
    /\ UNCHANGED besideRoster

\* navigateMonth: setCurrentDate, whose effect starts loadData
navigateMonth(u, direction) ==
    LET month == ui[u].currentDate + direction
    IN  /\ PageReady(u)
        /\ budget.ops > 0
        /\ month \in 1 .. NumMonths
        /\ ui' = [ui EXCEPT ![u].currentDate = month, ![u].loading = TRUE]
        /\ run' = [run EXCEPT ![u] =
                      [RunIdle EXCEPT !.pc = "reload", !.op = "navigate",
                                      !.isSuperAdmin = isSuperAdmin(u)]]
        /\ log' = [log EXCEPT ![u] = NoLog]
        /\ budget' = StartOp("ok")
        /\ UNCHANGED remoteVars
    /\ UNCHANGED besideRoster

(***************************************************************************)
(* createNewVersion                                                        *)
(***************************************************************************)
\* the handler state on entering createNewVersion: the next number is computed
\* from the cached versions, and the cached current version, if any, is deactivated first
EnterCreateNewVersion(u, r) ==
    [r EXCEPT !.pc = IF ui[u].currentVersion # 0 THEN "deactivate" ELSE "insertVersion",
              !.nextVersionNumber = getNextVersionNumber(ui[u].versions)]

LogEnterVersion(u, l) ==
    [l EXCEPT !.scope = ui[u].currentDate,
              !.deactivate = IF ui[u].currentVersion # 0 THEN "pending" ELSE "skipped",
              !.insert = "pending"]

\* mutant: deleting a roster reverts the month to the version before the current
DeactivatedMonth_revert(u) ==
    LET older == {i \in 1 .. Len(versionsDB) :
                     /\ versionsDB[i].month = ui[u].currentDate
                     /\ i < ui[u].currentVersion}
        previous == IF older = {} THEN 0 ELSE CHOOSE i \in older : \A j \in older : j <= i
    IN  [i \in 1 .. Len(versionsDB) |->
            IF versionsDB[i].month = ui[u].currentDate
            THEN [versionsDB[i] EXCEPT !.is_active = (i = previous)] ELSE versionsDB[i]]

\* update({ is_active: false }).eq('month', ...).eq('year', ...), of deleteRoster
DeactivatedMonth(u) ==
    [i \in 1 .. Len(versionsDB) |->
        IF versionsDB[i].month = ui[u].currentDate
        THEN [versionsDB[i] EXCEPT !.is_active = FALSE] ELSE versionsDB[i]]

\* mutant: every version of the month is deactivated, not the cached one
DeactivatedLedger_byMonth(u) == DeactivatedMonth(u)

\* update({ is_active: false }).eq('id', currentVersion.id)
DeactivatedLedger(u) ==
    [i \in 1 .. Len(versionsDB) |->
        IF versionsDB[i].id = ui[u].currentVersion
        THEN [versionsDB[i] EXCEPT !.is_active = FALSE] ELSE versionsDB[i]]

\* createNewVersion's update of the current version; its result is not looked at
versionDeactivate(u, outcome) ==
    /\ run[u].pc = "deactivate"
    /\ outcome \in Outcomes
    /\ versionsDB' = IF outcome = "ok" THEN DeactivatedLedger(u) ELSE versionsDB
    /\ run' = [run EXCEPT ![u].pc = "insertVersion"]
    /\ log' = [log EXCEPT ![u].deactivate = IF outcome = "ok" THEN "ok" ELSE "failed"]
    /\ budget' = Spend(outcome)
    /\ UNCHANGED <<schedulesDB, scheduleSeq, requestsDB, ui>>
    /\ UNCHANGED besideRoster

\* the row createNewVersion inserts
versionData(u) ==
    [id |-> Len(versionsDB) + 1, month |-> ui[u].currentDate,
     version_number |-> run[u].nextVersionNumber, created_by |-> u, is_active |-> TRUE]

\* mutant: a failed insert puts the deactivated version back
LedgerAfterInsert_rollback(u, outcome) ==
    IF outcome = "ok" THEN Append(versionsDB, versionData(u))
    ELSE [i \in 1 .. Len(versionsDB) |->
            IF versionsDB[i].id = ui[u].currentVersion
            THEN [versionsDB[i] EXCEPT !.is_active = TRUE] ELSE versionsDB[i]]

LedgerAfterInsert(u, outcome) ==
    IF outcome = "ok" THEN Append(versionsDB, versionData(u)) ELSE versionsDB

\* createNewVersion's insert; an error is caught and logged, and the caller goes on:
\* it closes its modal and starts loadData
versionInsert(u, outcome) ==
    /\ run[u].pc = "insertVersion"
    /\ outcome \in Outcomes
    /\ versionsDB' = LedgerAfterInsert(u, outcome)
    /\ log' = [log EXCEPT ![u].insert = IF outcome = "ok" THEN "ok" ELSE "failed",
                          ![u].newId = IF outcome = "ok" THEN Len(versionsDB) + 1 ELSE 0]
    /\ run' = [run EXCEPT ![u].pc = "reload"]
    /\ ui' = [ui EXCEPT ![u] =
                [ui[u] EXCEPT
                    !.loading = TRUE,
                    !.showEditModal = IF run[u].op = "saveShift" THEN FALSE ELSE @,
                    !.selectedEdit = IF run[u].op = "saveShift" THEN NoEdit ELSE @,
                    !.showApprovalModal = IF run[u].op = "approveRequest" THEN FALSE ELSE @,
                    !.selectedRequest =
                        IF run[u].op = "approveRequest" THEN NoRequest ELSE @]]
    /\ budget' = Spend(outcome)
    /\ UNCHANGED <<schedulesDB, scheduleSeq, requestsDB>>
    /\ UNCHANGED besideRoster

(***************************************************************************)
(* saveShift                                                               *)
(***************************************************************************)
\* the grid shows the cached profiles without the super admins
filterStaffForRoster(profiles) == {p \in profiles : p.role # "super_admin"}

\* handleEditShift(profileId, date), from a click on a grid cell
handleEditShift(u, profileId, day) ==
    /\ PageReady(u)
    /\ budget.ops > 0
    /\ isAdmin(u)
    /\ \E p \in filterStaffForRoster(ui[u].staffProfiles) : p.id = profileId
    /\ ui' = [ui EXCEPT
                ![u].selectedEdit =
                    [profileId |-> profileId,
                     date |-> formatDateForIST(getDaysInMonth(ui[u].tz, ui[u].currentDate)[day])],
                ![u].showEditModal = TRUE]
    /\ budget' = StartOp("ok")
    /\ UNCHANGED <<remoteVars, run, log>>
    /\ UNCHANGED besideRoster

\* the edit modal's Cancel
cancelEdit(u) ==
    /\ run[u].pc = "idle"
    /\ budget.ops > 0
    /\ ui[u].showEditModal
    /\ ui' = [ui EXCEPT ![u].showEditModal = FALSE]
    /\ budget' = StartOp("ok")
    /\ UNCHANGED <<remoteVars, run, log>>
    /\ UNCHANGED besideRoster

\* the rows of the cache that schedules.find can return for a key
CachedFor(u, profileId, date) ==
    {s \in ui[u].schedules : s.profile_id = profileId /\ s.date = date}

\* update(scheduleData).eq('id', id)
UpdatedStore(id, shiftCode, overtimeHours) ==
    {IF s.id = id
     THEN [s EXCEPT !.shift_code = shiftCode, !.overtime_hours = overtimeHours,
                    !.status = "confirmed"]
     ELSE s : s \in schedulesDB}

\* insert([{ ...scheduleData }])
InsertedStore(profileId, date, shiftCode, overtimeHours) ==
    schedulesDB \cup {[id |-> scheduleSeq + 1, profile_id |-> profileId, date |-> date,
                       shift_code |-> shiftCode, overtime_hours |-> overtimeHours,
                       status |-> "confirmed"]}

\* saveShift(shiftCode), from a button of the edit modal, up to the answer to its
\* update or insert; on success createNewVersion is entered
saveShift(u, shiftCode, outcome) ==
    /\ run[u].pc = "idle"
    /\ ui[u].showEditModal
    /\ budget.ops > 0
    /\ outcome \in Outcomes
    /\ IF ui[u].selectedEdit = NoEdit \/ ~isAdmin(u)
       THEN /\ ui' = [ui EXCEPT ![u].notification =
                        [type |-> "warning", message |-> "Unable to save shift"]]
            /\ budget' = StartOp("ok")
            /\ log' = [log EXCEPT ![u] = [NoLog EXCEPT !.op = "saveShift"]]
            /\ UNCHANGED <<remoteVars, run>>
       ELSE LET sel == ui[u].selectedEdit
                found == CachedFor(u, sel.profileId, sel.date)
            IN  \E existing \in IF found = {} THEN {0} ELSE {s.id : s \in found} :
                  LET store ==
                        IF outcome # "ok" THEN schedulesDB
                        ELSE IF existing # 0 THEN UpdatedStore(existing, shiftCode, 0)
                        ELSE InsertedStore(sel.profileId, sel.date, shiftCode, 0)
                      started == [RunIdle EXCEPT !.op = "saveShift",
                                                 !.isSuperAdmin = isSuperAdmin(u),
                                                 !.success = "Shift updated successfully!"]
                      logged == [NoLog EXCEPT !.op = "saveShift",
                                              !.wrote = outcome,
                                              !.key = sel,
                                              !.shift = shiftCode,
                                              !.storeBefore = schedulesDB,
                                              !.storeAfter = store,
                                              !.ledgerAtStart = Len(versionsDB)]
                  IN  /\ schedulesDB' = store
                      /\ scheduleSeq' = IF outcome = "ok" /\ existing = 0
                                         THEN scheduleSeq + 1 ELSE scheduleSeq
                      /\ budget' = StartOp(outcome)
                      /\ IF outcome = "ok"
                         THEN /\ run' = [run EXCEPT ![u] = EnterCreateNewVersion(u, started)]
                              /\ log' = [log EXCEPT ![u] = LogEnterVersion(u, logged)]
                              /\ ui' = ui
                         ELSE /\ run' = run
                              /\ log' = [log EXCEPT ![u] = logged]
                              /\ ui' = [ui EXCEPT ![u].notification =
                                          [type |-> "error", message |-> "Failed to save shift"]]
                      /\ UNCHANGED <<versionsDB, requestsDB>>
    /\ UNCHANGED besideRoster

(***************************************************************************)
(* quickAddMonth                                                           *)
(***************************************************************************)
\* the cached profiles in the order of the query (by full_name)
StaffOrder == <<"p1", "p2">>

\* the rows quickAddMonth builds: for each cached profile and each day of the month
\* (dayCounter = i - 1) with no cached row, the rest day on every seventh day
schedulesToCreate(u) ==
    {[si |-> si, i |-> i,
      profile_id |-> StaffOrder[si],
      date |-> toISODate(getDaysInMonth(ui[u].tz, ui[u].currentDate)[i]),
      shift_code |-> IF (i - 1) % 7 = 6 THEN "RD" ELSE "D"]
        : <<si, i>> \in {c \in (1 .. Len(StaffOrder)) \X (1 .. DaysPerMonth) :
              /\ \E p \in ui[u].staffProfiles : p.id = StaffOrder[c[1]]
              /\ CachedFor(u, StaffOrder[c[1]],
                           toISODate(getDaysInMonth(ui[u].tz, ui[u].currentDate)[c[2]])) = {}}}

\* insert(schedulesToCreate)
BulkInsertedStore(rows) ==
    schedulesDB \cup
        {[id |-> scheduleSeq + (r.si - 1) * DaysPerMonth + r.i,
          profile_id |-> r.profile_id, date |-> r.date, shift_code |-> r.shift_code,
          overtime_hours |-> NullHours, status |-> "confirmed"] : r \in rows}

\* quickAddMonth, from the Quick Add button (shown to admins), up to the answer
\* to its insert
quickAddMonth(u, outcome) ==
    LET rows == schedulesToCreate(u)
        store == IF outcome = "ok" THEN BulkInsertedStore(rows) ELSE schedulesDB
        started == [RunIdle EXCEPT !.op = "quickAddMonth",
                                   !.isSuperAdmin = isSuperAdmin(u),
                                   !.success = "Generated roster entries successfully!"]
        logged == [NoLog EXCEPT !.op = "quickAddMonth",
                                !.wrote = IF rows = {} THEN "none" ELSE outcome,
                                !.storeBefore = schedulesDB,
                                !.storeAfter = IF rows = {} THEN schedulesDB ELSE store,
                                !.ledgerAtStart = Len(versionsDB)]
    IN  /\ PageReady(u)
        /\ isAdmin(u)
        /\ budget.ops > 0
        /\ outcome \in Outcomes
        /\ IF rows = {}
           THEN /\ outcome = "ok"
                /\ ui' = [ui EXCEPT ![u].notification =
                            [type |-> "warning",
                             message |-> "All roster entries already exist for this month"]]
                /\ log' = [log EXCEPT ![u] = logged]
                /\ budget' = StartOp("ok")
                /\ UNCHANGED <<remoteVars, run>>
           ELSE /\ schedulesDB' = store
                /\ scheduleSeq' = IF outcome = "ok"
                                   THEN scheduleSeq + Len(StaffOrder) * DaysPerMonth
                                   ELSE scheduleSeq
                /\ budget' = StartOp(outcome)
                /\ IF outcome = "ok"
                   THEN /\ run' = [run EXCEPT ![u] = EnterCreateNewVersion(u, started)]
                        /\ log' = [log EXCEPT ![u] = LogEnterVersion(u, logged)]
                        /\ ui' = ui
                   ELSE /\ run' = run
                        /\ log' = [log EXCEPT ![u] = logged]
                        /\ ui' = [ui EXCEPT ![u].notification =
                                    [type |-> "error",
                                     message |-> "Failed to generate month roster"]]
                /\ UNCHANGED <<versionsDB, requestsDB>>
    /\ UNCHANGED besideRoster

(***************************************************************************)
(* deleteRoster                                                            *)
(***************************************************************************)
\* delete().gte('date', startDateIST).lte('date', endDateIST)
StoreAfterDelete(u) ==
    {s \in schedulesDB :
        ~ /\ s.date >= formatDateForIST(startOfMonth(ui[u].tz, ui[u].currentDate))
          /\ s.date <= formatDateForIST(endOfMonth(ui[u].tz, ui[u].currentDate))}

\* deleteRoster, from the Delete button (shown to super admins) and confirmed,
\* up to the answer to its delete
deleteRoster(u, outcome) ==
    /\ PageReady(u)
    /\ isSuperAdmin(u)
    /\ budget.ops > 0
    /\ outcome \in Outcomes
    /\ schedulesDB' = IF outcome = "ok" THEN StoreAfterDelete(u) ELSE schedulesDB
    /\ budget' = StartOp(outcome)
    /\ log' = [log EXCEPT ![u] =
                 [NoLog EXCEPT !.op = "deleteRoster", !.wrote = outcome,
                               !.storeBefore = schedulesDB,
                               !.storeAfter = schedulesDB',
                               !.scope = ui[u].currentDate,
                               !.ledgerAtStart = Len(versionsDB)]]
    /\ IF outcome = "ok"
       THEN /\ run' = [run EXCEPT ![u] =
                         [RunIdle EXCEPT
                             !.pc = IF ui[u].currentVersion # 0 THEN "deactivateAll"
                                    ELSE "reload",
                             !.op = "deleteRoster",
                             !.isSuperAdmin = isSuperAdmin(u),
                             !.success = "Roster deleted successfully"]]
            /\ ui' = [ui EXCEPT ![u].loading = (ui[u].currentVersion = 0)]
       ELSE /\ run' = run
            /\ ui' = [ui EXCEPT ![u].notification =
                        [type |-> "error", message |-> "Failed to delete roster"]]
    /\ UNCHANGED <<scheduleSeq, versionsDB, requestsDB>>
    /\ UNCHANGED besideRoster

\* deleteRoster's update({ is_active: false }) of the month's versions, made when a
\* current version is cached; its result is not looked at; loadData follows
deactivateAll(u, outcome) ==
    /\ run[u].pc = "deactivateAll"
    /\ outcome \in Outcomes
    /\ versionsDB' = IF outcome = "ok" THEN DeactivatedMonth(u) ELSE versionsDB
    /\ run' = [run EXCEPT ![u].pc = "reload"]
    /\ ui' = [ui EXCEPT ![u].loading = TRUE]
    /\ log' = [log EXCEPT ![u].deactivate = IF outcome = "ok" THEN "ok" ELSE "failed"]
    /\ budget' = Spend(outcome)
    /\ UNCHANGED <<schedulesDB, scheduleSeq, requestsDB>>
    /\ UNCHANGED besideRoster

(***************************************************************************)
(* Requests                                                                *)
(***************************************************************************)
\* the Review button of a listed pending request, shown to super admins; it only sets
\* state, so it can be clicked while a handler started earlier awaits a remote call
reviewRequest(u, id) ==
    /\ PageShown(u)
    /\ budget.ops > 0
    /\ isSuperAdmin(u)
    /\ \E r \in ui[u].requests :
        /\ r.id = id
        /\ r.status = "pending"
        /\ ui' = [ui EXCEPT ![u].selectedRequest = r, ![u].showApprovalModal = TRUE]
    /\ budget' = StartOp("ok")
    /\ UNCHANGED <<remoteVars, run, log>>
    /\ UNCHANGED besideRoster

\* the approval modal's Cancel: the modal closes, the selected request stays
cancelApproval(u) ==
    /\ run[u].pc = "idle"
    /\ budget.ops > 0
    /\ ui[u].showApprovalModal
    /\ ui' = [ui EXCEPT ![u].showApprovalModal = FALSE]
    /\ budget' = StartOp("ok")
    /\ UNCHANGED <<remoteVars, run, log>>
    /\ UNCHANGED besideRoster

\* update(updateData).eq('id', requestId)
RequestsAfterDecision(u, requestId, approved) ==
    {IF r.id = requestId
     THEN [r EXCEPT !.status = IF approved THEN "approved" ELSE "rejected",
                    !.approved_by = IF currentStaffProfile(u) = {} THEN ""
                                    ELSE (CHOOSE p \in currentStaffProfile(u) : TRUE).id]
     ELSE r : r \in requestsDB}

\* approveRequest past its role check, up to the answer to its update of the request
decideRequest(u, approved, outcome) ==
    /\ requestsDB' = IF outcome = "ok"
                      THEN RequestsAfterDecision(u, ui[u].selectedRequest.id, approved)
                      ELSE requestsDB
    /\ budget' = StartOp(outcome)
    /\ log' = [log EXCEPT ![u] =
                 [NoLog EXCEPT !.op = "approveRequest",
                               !.storeBefore = schedulesDB,
                               !.storeAfter = schedulesDB,
                               !.ledgerAtStart = Len(versionsDB)]]
    /\ IF outcome # "ok"
       THEN /\ run' = run
            /\ ui' = [ui EXCEPT ![u].notification =
                        [type |-> "error", message |-> "Failed to process request"]]
       ELSE /\ run' = [run EXCEPT ![u] =
                         [RunIdle EXCEPT
                             !.pc = IF approved THEN "applyRequest" ELSE "reload",
                             !.op = "approveRequest",
                             !.isSuperAdmin = isSuperAdmin(u),
                             !.success = IF approved
                                         THEN "Request approved successfully"
                                         ELSE "Request rejected successfully"]]
            /\ ui' = IF approved THEN ui
                     ELSE [ui EXCEPT ![u].showApprovalModal = FALSE,
                                     ![u].selectedRequest = NoRequest,
                                     ![u].loading = TRUE]
    /\ UNCHANGED <<schedulesDB, scheduleSeq, versionsDB>>

\* mutant: approveRequest without its role check
approveRequest_noRoleCheck(u, approved, outcome) ==
    /\ run[u].pc = "idle"
    /\ ui[u].showApprovalModal
    /\ ui[u].selectedRequest # NoRequest
    /\ budget.ops > 0
    /\ outcome \in Outcomes
    /\ decideRequest(u, approved, outcome)
    /\ UNCHANGED besideRoster

\* approveRequest(selectedRequest.id, approved), from the buttons of the approval
\* modal: it returns at once for a user who is not a super admin
approveRequest(u, approved, outcome) ==
    /\ run[u].pc = "idle"
    /\ ui[u].showApprovalModal
    /\ ui[u].selectedRequest # NoRequest
    /\ budget.ops > 0
    /\ outcome \in Outcomes
    /\ IF ~isSuperAdmin(u)
       THEN /\ outcome = "ok"
            /\ budget' = StartOp("ok")
            /\ log' = [log EXCEPT ![u] =
                         [NoLog EXCEPT !.op = "approveRequest", !.wrote = "refused"]]
            /\ UNCHANGED <<remoteVars, ui, run>>
       ELSE decideRequest(u, approved, outcome)
    /\ UNCHANGED besideRoster

\* update(scheduleData).eq('id', id) of applyApprovedRequest: overtime_hours is not set
RequestUpdatedStore(id, shiftCode) ==
    {IF s.id = id THEN [s EXCEPT !.shift_code = shiftCode, !.status = "confirmed"] ELSE s
        : s \in schedulesDB}

\* applyApprovedRequest(selectedRequest), up to the answer to its update or insert;
\* an error is thrown on to approveRequest, which reports it
applyApprovedRequest(u, outcome) ==
    LET request == ui[u].selectedRequest
        shiftCode == IF request.request_type = "half_day" THEN "HD" ELSE "L"
        found == CachedFor(u, request.user_id, request.requested_date)
    IN  /\ run[u].pc = "applyRequest"
        /\ outcome \in Outcomes
        /\ \E existing \in IF found = {} THEN {0} ELSE {s.id : s \in found} :
            LET store ==
                    IF outcome # "ok" THEN schedulesDB
                    ELSE IF existing # 0 THEN RequestUpdatedStore(existing, shiftCode)
                    ELSE InsertedStore(request.user_id, request.requested_date,
                                       shiftCode, NullHours)
                logged == [log[u] EXCEPT !.wrote = outcome,
                                         !.key = [profileId |-> request.user_id,
                                                  date |-> request.requested_date],
                                         !.shift = shiftCode,
                                         !.requestType = request.request_type,
                                         !.storeBefore = schedulesDB,
                                         !.storeAfter = store]
            IN  /\ schedulesDB' = store
                /\ scheduleSeq' = IF outcome = "ok" /\ existing = 0
                                   THEN scheduleSeq + 1 ELSE scheduleSeq
                /\ budget' = Spend(outcome)
                /\ IF outcome = "ok"
                   THEN /\ run' = [run EXCEPT ![u] = EnterCreateNewVersion(u, run[u])]
                        /\ log' = [log EXCEPT ![u] = LogEnterVersion(u, logged)]
                        /\ ui' = ui
                   ELSE /\ run' = [run EXCEPT ![u] = RunIdle]
                        /\ log' = [log EXCEPT ![u] = logged]
                        /\ ui' = [ui EXCEPT ![u].notification =
                                    [type |-> "error",
                                     message |-> "Failed to process request"]]
                /\ UNCHANGED <<versionsDB, requestsDB>>
    /\ UNCHANGED besideRoster

(***************************************************************************)
(* ChecklistManagement: templates, their items, and the instances made     *)
(* from them; one browser session per signed-in user.                      *)
(***************************************************************************)
\* handler invocations of one checklist session
MaxChecklistOps == 2
\* remote calls that may fail in one checklist session
MaxChecklistFailures == 1
\* items of template t1 when a behaviour starts
NumTemplateItems == 2

\* the templates: t1 with items, t2 without
TemplateIds == {"t1", "t2"}

\* a column that is null
Null == "null"

\* checklist_template_items when a behaviour starts
InitTemplateItems ==
    {[id |-> i, template_id |-> "t1", title |-> i, sort_order |-> i]
        : i \in 1 .. NumTemplateItems}

\* profile?.role of useAuth, for the signed-in user
profileRole(u) == (CHOOSE p \in StaffProfilesDB : p.user_id = u).role
canManageTemplates(u) == profileRole(u) = "super_admin"
canCreateInstances(u) == profileRole(u) = "admin" \/ canManageTemplates(u)

\* the component before its first loadData has returned; listed are the cached
\* templates and templates their cached items; created and sourceItems
\* record the instance the last handleCreateInstance inserted and the items the
\* store held for its template at that moment
CkMounting ==
    [listed |-> {}, templates |-> {}, instances |-> {}, instanceItems |-> {},
     loading |-> TRUE,
     submitting |-> FALSE, error |-> "", success |-> "",
     pc |-> "mount", instance |-> 0, items |-> {},
     created |-> 0, sourceItems |-> {},
     ops |-> MaxChecklistOps, failures |-> MaxChecklistFailures]
CkOff == [CkMounting EXCEPT !.pc = "off", !.ops = 0, !.failures = 0]

CkOutcomes(u) == IF ck[u].failures > 0 THEN {"ok", "error"} ELSE {"ok"}
CkSpend(c, outcome) == [c EXCEPT !.failures = IF outcome = "ok" THEN @ ELSE @ - 1]

\* template.items of a cached template
CachedItems(u, template) == {i \in ck[u].templates : i.template_id = template}

\* loadData on mount: loadTemplates and loadInstances side by side, each setting its
\* state when its query succeeds; a failure of either is reported
ckLoadData(u, templatesOutcome, instancesOutcome) ==
    /\ ck[u].pc = "mount"
    /\ templatesOutcome \in CkOutcomes(u)
    /\ instancesOutcome \in CkOutcomes(u)
    /\ templatesOutcome = "ok" \/ instancesOutcome = "ok"
    /\ ck' = [ck EXCEPT ![u] =
                [CkSpend(CkSpend(ck[u], templatesOutcome), instancesOutcome) EXCEPT
                    !.listed = IF templatesOutcome = "ok" THEN TemplateIds ELSE @,
                    !.templates = IF templatesOutcome = "ok" THEN templateItemsDB ELSE @,
                    !.instances = IF instancesOutcome = "ok" THEN instancesDB ELSE @,
                    !.instanceItems = IF instancesOutcome = "ok" THEN instanceItemsDB ELSE @,
                    !.error = IF templatesOutcome = "ok" /\ instancesOutcome = "ok" THEN @
                              ELSE "Failed to load checklist data",
                    !.loading = FALSE,
                    !.pc = "idle"]]
    /\ UNCHANGED <<templateItemsDB, instancesDB, instanceItemsDB>>
    /\ UNCHANGED besideChecklists

\* the loadTemplates() a handler starts without awaiting it
ckLoadTemplates(u, outcome) ==
    /\ ck[u].pc = "reloadTemplates"
    /\ outcome \in CkOutcomes(u)
    /\ ck' = [ck EXCEPT ![u] =
                [CkSpend(ck[u], outcome) EXCEPT
                    !.listed = IF outcome = "ok" THEN TemplateIds ELSE @,
                    !.templates = IF outcome = "ok" THEN templateItemsDB ELSE @,
                    !.pc = "idle"]]
    /\ UNCHANGED <<templateItemsDB, instancesDB, instanceItemsDB>>
    /\ UNCHANGED besideChecklists

\* the loadInstances() a handler starts without awaiting it
ckLoadInstances(u, outcome) ==
    /\ ck[u].pc = "reloadInstances"
    /\ outcome \in CkOutcomes(u)
    /\ ck' = [ck EXCEPT ![u] =
                [CkSpend(ck[u], outcome) EXCEPT
                    !.instances = IF outcome = "ok" THEN instancesDB ELSE @,
                    !.instanceItems = IF outcome = "ok" THEN instanceItemsDB ELSE @,
                    !.pc = "idle"]]
    /\ UNCHANGED <<templateItemsDB, instancesDB, instanceItemsDB>>
    /\ UNCHANGED besideChecklists

\* handleAddItem for a new item of the template chosen with its Add Item button
\* (shown to those who can manage templates): sort_order follows the cached items
handleAddItem(u, template, outcome) ==
    /\ ck[u].pc = "idle"
    /\ ~ck[u].loading
    /\ canManageTemplates(u)
    /\ template \in ck[u].listed
    /\ ck[u].ops > 0
    /\ outcome \in CkOutcomes(u)
    /\ templateItemsDB' =
            IF outcome # "ok" THEN templateItemsDB
            ELSE templateItemsDB \cup
                    {[id |-> Cardinality(templateItemsDB) + 1, template_id |-> template,
                      title |-> Cardinality(templateItemsDB) + 1,
                      sort_order |-> Cardinality(CachedItems(u, template)) + 1]}
    /\ ck' = [ck EXCEPT ![u] =
                [CkSpend(ck[u], outcome) EXCEPT
                    !.ops = @ - 1,
                    !.error = IF outcome = "ok" THEN "" ELSE "Failed to save item",
                    !.success = IF outcome = "ok" THEN "Item added successfully!" ELSE @,
                    !.pc = IF outcome = "ok" THEN "reloadTemplates" ELSE "idle"]]
    /\ UNCHANGED <<instancesDB, instanceItemsDB>>
    /\ UNCHANGED besideChecklists

\* handleCreateInstance(template), from the Use Today button of a cached template, up
\* to the answer to its insert of the instance
handleCreateInstance(u, template, outcome) ==
    LET id == Cardinality(instancesDB) + 1
        items == CachedItems(u, template)
    IN  /\ ck[u].pc = "idle"
        /\ ~ck[u].loading
        /\ ~ck[u].submitting
        /\ canCreateInstances(u)
        /\ template \in ck[u].listed
        /\ ck[u].ops > 0
        /\ outcome \in CkOutcomes(u)
        /\ instancesDB' =
                IF outcome # "ok" THEN instancesDB
                ELSE instancesDB \cup {[id |-> id, template_id |-> template, created_by |-> u]}
        /\ ck' = [ck EXCEPT ![u] =
                    [CkSpend(ck[u], outcome) EXCEPT
                        !.ops = @ - 1,
                        !.instance = IF outcome = "ok" THEN id ELSE 0,
                        !.items = IF outcome = "ok" THEN items ELSE {},
                        !.created = IF outcome = "ok" THEN id ELSE 0,
                        !.sourceItems =
                            IF outcome = "ok"
                            THEN {i \in templateItemsDB : i.template_id = template} ELSE {},
                        !.submitting = outcome = "ok" /\ items # {},
                        !.error = IF outcome = "ok" THEN @
                                  ELSE "Failed to create checklist instance",
                        !.success = IF outcome = "ok" /\ items = {}
                                    THEN "Checklist instance created successfully!" ELSE @,
                        !.pc = IF outcome # "ok" THEN "idle"
                               ELSE IF items # {} THEN "insertItems" ELSE "reloadInstances"]]
        /\ UNCHANGED <<templateItemsDB, instanceItemsDB>>
        /\ UNCHANGED besideChecklists

\* template.items.map(...): the rows handleCreateInstance inserts; is_completed,
\* completed_by and completed_at are not given and take the table's defaults
InstanceItemsOf(instance, items) ==
    {[instance_id |-> instance, template_item_id |-> i.id, title |-> i.title,
      sort_order |-> i.sort_order, is_completed |-> FALSE,
      completed_by |-> Null, completed_at |-> Null] : i \in items}

\* handleCreateInstance's insert of the copied items
instanceItemsInsert(u, outcome) ==
    /\ ck[u].pc = "insertItems"
    /\ outcome \in CkOutcomes(u)
    /\ instanceItemsDB' =
            IF outcome # "ok" THEN instanceItemsDB
            ELSE instanceItemsDB \cup InstanceItemsOf(ck[u].instance, ck[u].items)
    /\ ck' = [ck EXCEPT ![u] =
                [CkSpend(ck[u], outcome) EXCEPT
                    !.submitting = FALSE,
                    !.error = IF outcome = "ok" THEN @
                              ELSE "Failed to create checklist instance",
                    !.success = IF outcome = "ok"
                                THEN "Checklist instance created successfully!" ELSE @,
                    !.pc = IF outcome = "ok" THEN "reloadInstances" ELSE "idle"]]
    /\ UNCHANGED <<templateItemsDB, instancesDB>>
    /\ UNCHANGED besideChecklists

\* mutant: un-completing an item keeps who completed it
updateData_keepCompleter(instanceItem, u) ==
    [is_completed |-> ~instanceItem.is_completed,
     completed_by |-> u,
     completed_at |-> IF ~instanceItem.is_completed THEN "now" ELSE Null]

\* updateData of handleToggleItem, new Date().toISOString() being the text "now"
updateData(instanceItem, u) ==
    [is_completed |-> ~instanceItem.is_completed,
     completed_by |-> IF ~instanceItem.is_completed THEN u ELSE Null,
     completed_at |-> IF ~instanceItem.is_completed THEN "now" ELSE Null]

\* handleToggleItem(item), from the box of an item of a cached instance, up to the
\* answer to its update; nothing keeps it from being clicked while the reload an
\* earlier handler started is under way
handleToggleItem(u, outcome) ==
    /\ ck[u].pc \in {"idle", "reloadInstances"}
    /\ ~ck[u].loading
    /\ ck[u].ops > 0
    /\ outcome \in CkOutcomes(u)
    /\ \E instanceItem \in ck[u].instanceItems :
        LET data == updateData(instanceItem, u)
        IN  instanceItemsDB' =
                IF outcome # "ok" THEN instanceItemsDB
                ELSE {IF x.instance_id = instanceItem.instance_id
                         /\ x.template_item_id = instanceItem.template_item_id
                      THEN [x EXCEPT !.is_completed = data.is_completed,
                                     !.completed_by = data.completed_by,
                                     !.completed_at = data.completed_at]
                      ELSE x : x \in instanceItemsDB}
    /\ ck' = [ck EXCEPT ![u] =
                [CkSpend(ck[u], outcome) EXCEPT
                    !.ops = @ - 1,
                    !.error = IF outcome = "ok" THEN @ ELSE "Failed to update item",
                    !.pc = IF outcome = "ok" THEN "reloadInstances" ELSE @]]
    /\ UNCHANGED <<templateItemsDB, instancesDB>>
    /\ UNCHANGED besideChecklists

\* one step of the checklist session of user u
ChecklistStep(u) ==
    \/ \E t \in {"ok", "error"}, i \in {"ok", "error"} : ckLoadData(u, t, i)
    \/ \E outcome \in {"ok", "error"} : ckLoadTemplates(u, outcome)
    \/ \E outcome \in {"ok", "error"} : ckLoadInstances(u, outcome)
    \/ \E template \in TemplateIds, outcome \in {"ok", "error"} :
          handleAddItem(u, template, outcome)
    \/ \E template \in TemplateIds, outcome \in {"ok", "error"} :
          handleCreateInstance(u, template, outcome)
    \/ \E outcome \in {"ok", "error"} : instanceItemsInsert(u, outcome)
    \/ \E outcome \in {"ok", "error"} : handleToggleItem(u, outcome)

(***************************************************************************)
(* CandidateTracker: the candidates of the store and the bulk upload of a  *)
(* CSV file; one browser session per signed-in user.  Text is a sequence   *)
(* of one-character strings.                                               *)
(***************************************************************************)
\* files chosen for upload in one behaviour, over all sessions
MaxUploads == 1
\* presses of the Upload Candidates button in one behaviour, over all sessions
MaxUploadRuns == 1
\* remote calls that may fail in one behaviour of the tracker
MaxUploadFailures == 1

\* String.prototype.includes
includes(s, sub) ==
    \E k \in 0 .. Len(s) - Len(sub) : SubSeq(s, k + 1, k + Len(sub)) = sub

\* String.prototype.split for a separator of one character
RECURSIVE split(_, _)
split(s, sep) ==
    IF \A k \in 1 .. Len(s) : s[k] # sep THEN <<s>>
    ELSE LET k == CHOOSE j \in 1 .. Len(s) :
                    s[j] = sep /\ \A h \in 1 .. j - 1 : s[h] # sep
         IN  <<SubSeq(s, 1, k - 1)>> \o split(SubSeq(s, k + 1, Len(s)), sep)

\* the characters String.prototype.trim removes, of those the files hold
WhiteSpace == {" ", "\r", "\n", "\t"}

\* String.prototype.trim
RECURSIVE trim(_)
trim(s) ==
    IF s = <<>> THEN s
    ELSE IF Head(s) \in WhiteSpace THEN trim(Tail(s))
    ELSE IF s[Len(s)] \in WhiteSpace THEN trim(SubSeq(s, 1, Len(s) - 1))
    ELSE s

\* String.prototype.toLowerCase, for the capitals the files hold
toLowerCase(s) ==
    LET lowerChar(ch) ==
            CASE ch = "A" -> "a" [] ch = "B" -> "b" [] ch = "E" -> "e" [] ch = "F" -> "f"
              [] ch = "N" -> "n" [] OTHER -> ch
    IN  [k \in 1 .. Len(s) |-> lowerChar(s[k])]

\* Array.prototype.join
RECURSIVE join(_, _)
join(parts, sep) ==
    IF parts = <<>> THEN <<>>
    ELSE IF Len(parts) = 1 THEN parts[1]
    ELSE parts[1] \o sep \o join(Tail(parts), sep)

\* the column names of the upload instructions and their variants
Txt_full_name == <<"f", "u", "l", "l", "_", "n", "a", "m", "e">>
Txt_email == <<"e", "m", "a", "i", "l">>
Txt_phone == <<"p", "h", "o", "n", "e">>
Txt_exam_name == <<"e", "x", "a", "m", "_", "n", "a", "m", "e">>
Txt_exam_date == <<"e", "x", "a", "m", "_", "d", "a", "t", "e">>
Txt_notes == <<"n", "o", "t", "e", "s">>

\* the words the column heuristics look for
Txt_name == <<"n", "a", "m", "e">>
Txt_full == <<"f", "u", "l", "l">>
Txt_exam == <<"e", "x", "a", "m">>
Txt_date == <<"d", "a", "t", "e">>
Txt_note == <<"n", "o", "t", "e">>

\* a field of candidateData never assigned, and one assigned null
undefined == <<"undefined">>
null == <<"null">>

\* value || null
orNull(value) == IF value = <<>> THEN null ELSE value

\* new Date(value).toISOString() for the date texts the files hold: a year of four
\* digits is the start of that year, any other text is an Invalid Date, for which
\* toISOString throws a RangeError
validDate(value) ==
    /\ Len(value) = 4
    /\ \A k \in 1 .. 4 : \E d \in 1 .. 10 : DigitChar[d] = value[k]
toISOString(value) ==
    value \o <<"-", "0", "1", "-", "0", "1", "T", "0", "0", ":", "0", "0", ":", "0", "0",
               ".", "0", "0", "0", "Z">>

\* candidateData = {} and whether building it threw
EmptyCandidate ==
    [full_name |-> undefined, email |-> undefined, phone |-> undefined,
     exam_name |-> undefined, exam_date |-> undefined, notes |-> undefined,
     threw |-> FALSE]

\* the body of headers.forEach for one header and its cell
assignColumn(cd, header, value) ==
    LET c1 == IF includes(header, Txt_name) \/ includes(header, Txt_full)
              THEN [cd EXCEPT !.full_name = value] ELSE cd
        c2 == IF includes(header, Txt_email) THEN [c1 EXCEPT !.email = value] ELSE c1
        c3 == IF includes(header, Txt_phone) THEN [c2 EXCEPT !.phone = orNull(value)] ELSE c2
        c4 == IF includes(header, Txt_exam) /\ includes(header, Txt_name)
              THEN [c3 EXCEPT !.exam_name = orNull(value)] ELSE c3
    IN  IF includes(header, Txt_exam) /\ includes(header, Txt_date) /\ value # <<>>
           /\ ~validDate(value)
        THEN [c4 EXCEPT !.threw = TRUE]
        ELSE LET c5 == IF includes(header, Txt_exam) /\ includes(header, Txt_date)
                       THEN [c4 EXCEPT !.exam_date =
                                IF value # <<>> THEN toISOString(value) ELSE null]
                       ELSE c4
             IN  IF includes(header, Txt_note) THEN [c5 EXCEPT !.notes = orNull(value)] ELSE c5

\* headers.forEach((header, index) => ...) from column index on; an exception ends it
RECURSIVE forEachHeader(_, _, _, _)
forEachHeader(cd, headers, values, index) ==
    IF index > Len(headers) \/ cd.threw THEN cd
    ELSE forEachHeader(
            assignColumn(cd, headers[index],
                         IF index <= Len(values) THEN values[index] ELSE <<>>),
            headers, values, index + 1)

\* the candidateData processBulkUpload builds for one data line
candidateDataOf(headers, line) ==
    LET cells == split(line, ",")
        values == [k \in 1 .. Len(cells) |-> trim(cells[k])]
    IN  forEachHeader(EmptyCandidate, headers, values, 1)

\* lines = text.split('\n').filter(line => line.trim())
RECURSIVE nonBlankLines(_)
nonBlankLines(lines) ==
    IF lines = <<>> THEN <<>>
    ELSE (IF trim(Head(lines)) # <<>> THEN <<Head(lines)>> ELSE <<>>)
            \o nonBlankLines(Tail(lines))
linesOf(text) == nonBlankLines(split(text, "\n"))

\* headers = lines[0].split(',').map(h => h.trim().toLowerCase())
headersOf(lines) ==
    LET cells == split(lines[1], ",")
    IN  [k \in 1 .. Len(cells) |-> toLowerCase(trim(cells[k]))]

\* requiredHeaders.filter(h => !headers.some(header => header.includes(h.replace('_', ''))))
requiredHeaders == <<Txt_full_name, Txt_email>>
RECURSIVE missingAmong(_, _)
missingAmong(required, headers) ==
    IF required = <<>> THEN <<>>
    ELSE (IF \E k \in 1 .. Len(headers) :
                 includes(headers[k], replaceFirst(Head(required), <<"_">>))
          THEN <<>> ELSE <<Head(required)>>)
            \o missingAmong(Tail(required), headers)
missingHeaders(headers) == missingAmong(requiredHeaders, headers)

\* the header lines of the files the behaviours upload: the columns as the upload
\* instructions name them, the name column without its underscore, the same with
\* capitals and padding
HeaderLines ==
    {join(<<Txt_full_name, Txt_email, Txt_exam_date>>, <<",">>),
     join(<<replaceFirst(Txt_full_name, <<"_">>), Txt_email, Txt_exam_date>>, <<",">>),
     <<"F", "u", "l", "l", "N", "a", "m", "e", " ", ",", " ", "E", "m", "a", "i", "l",
       ",", "e", "x", "a", "m", "_", "d", "a", "t", "e", "\r">>}

\* the data lines of the files, of name, email and exam date: none; the email of a
\* candidate of the store, then a new one; no email, then no name; a date that is
\* none, then a good line; the same line twice
DataLines ==
    LET LineAx == <<"A", ",", "x", ",">>
        LineBy == <<"B", ",", "y", ",", "2", "0", "2", "5">>
        LineNoName == <<",", "y", ",">>
        LineNoEmail == <<"A", ",", ",">>
        LineBadDate == <<"A", ",", "x", ",", "?">>
    IN  {<<>>, <<LineAx, LineBy>>, <<LineNoEmail, LineNoName>>, <<LineBadDate, LineBy>>,
         <<LineBy, LineBy>>}

\* the text of a file: its lines, each ended by a line feed, a blank line before the
\* last one
textOf(header, lines) ==
    header \o <<"\n">>
        \o (IF lines = <<>> THEN <<>>
            ELSE join(lines, <<"\n", " ", "\n">>) \o <<"\n">>)

UploadFiles == {textOf(header, lines) : header \in HeaderLines, lines \in DataLines}

\* the candidates table when a behaviour starts: one candidate, of email x
InitCandidates ==
    {[id |-> 1, full_name |-> <<"A">>, email |-> <<"x">>, phone |-> null,
      exam_name |-> null, exam_date |-> null, notes |-> null,
      status |-> "registered", user_id |-> "u1"]}

\* no file chosen
NoFile == <<"no file">>

\* the component before its first loadCandidates has returned; headers, dataLines, i,
\* errors, successCount, uploadRecord and seen are the locals and the captured
\* candidates of the running processBulkUpload
TrackerMounting ==
    [candidates |-> {}, loading |-> TRUE, uploadFile |-> NoFile,
     uploadStatus |-> "idle", uploadProgress |-> 0,
     uploadResults |-> [success |-> 0, errors |-> <<>>],
     pc |-> "mount", headers |-> <<>>, dataLines |-> <<>>, i |-> 0,
     errors |-> <<>>, successCount |-> 0, uploadRecord |-> 0, seen |-> {}]
TrackerOff == [TrackerMounting EXCEPT !.pc = "off"]

\* the file choices, button presses and failures a behaviour may still take are kept
\* with the uploads table
UploadOutcomes == IF uploadsDB.failures > 0 THEN {"ok", "error"} ELSE {"ok"}
UploadsAfter(outcome) ==
    [uploadsDB EXCEPT !.failures = IF outcome = "ok" THEN @ ELSE @ - 1]

\* loadCandidates, on mount and after an upload that inserted rows
loadCandidates(u, outcome) ==
    /\ tracker[u].pc \in {"mount", "reload"}
    /\ outcome \in UploadOutcomes
    /\ tracker' = [tracker EXCEPT ![u] =
                    [@ EXCEPT !.candidates = IF outcome = "ok" THEN candidatesDB ELSE @,
                              !.loading = FALSE,
                              !.pc = "idle"]]
    /\ uploadsDB' = UploadsAfter(outcome)
    /\ UNCHANGED candidatesDB
    /\ UNCHANGED besideTracker

\* the status a candidate card's button asks for: Check In, Start Exam, Complete
buttonStatus(status) ==
    CASE status = "registered" -> "checked_in"
      [] status = "checked_in" -> "in_progress"
      [] status = "in_progress" -> "completed"

\* handleUpdateStatus from the button of a card of the list the session shows, up to
\* the answer of the update: the row with the card's id gets the button's status
\* whatever status it holds; an error is alerted, else loadCandidates follows
handleUpdateStatus(u, outcome) ==
    /\ tracker[u].pc = "idle"
    /\ uploadsDB.clicks > 0
    /\ outcome \in UploadOutcomes
    /\ \E candidate \in tracker[u].candidates :
          /\ candidate.status \in {"registered", "checked_in", "in_progress"}
          /\ candidatesDB' =
                IF outcome # "ok" THEN candidatesDB
                ELSE {IF c.id = candidate.id
                      THEN [c EXCEPT !.status = buttonStatus(candidate.status)]
                      ELSE c : c \in candidatesDB}
    /\ tracker' = [tracker EXCEPT ![u] =
                    [@ EXCEPT !.loading = IF outcome = "ok" THEN TRUE ELSE @,
                              !.pc = IF outcome = "ok" THEN "reload" ELSE "idle"]]
    /\ uploadsDB' = [UploadsAfter(outcome) EXCEPT !.clicks = @ - 1]
    /\ UNCHANGED besideTracker

\* handleFileUpload for a CSV file
handleFileUpload(u, file) ==
    /\ tracker[u].pc = "idle"
    /\ uploadsDB.uploads > 0
    /\ tracker' = [tracker EXCEPT ![u] =
                    [@ EXCEPT !.uploadFile = file,
                              !.uploadStatus = "idle",
                              !.uploadResults = [success |-> 0, errors |-> <<>>]]]
    /\ uploadsDB' = [uploadsDB EXCEPT !.uploads = @ - 1]
    /\ UNCHANGED candidatesDB
    /\ UNCHANGED besideTracker

\* the outer catch of processBulkUpload
UploadFailed(t, message) ==
    [t EXCEPT !.uploadStatus = "error",
              !.uploadResults = [success |-> 0, errors |-> <<message>>],
              !.pc = "idle"]

\* processBulkUpload from the Upload Candidates button up to the first data row: the
\* upload record, the lines of the file, the validation of its header
processBulkUpload(u, outcome) ==
    LET t == tracker[u]
        id == Cardinality(uploadsDB.rows) + 1
        lines == linesOf(t.uploadFile)
        headers == headersOf(lines)
        started == [t EXCEPT !.uploadStatus = "uploading",
                             !.uploadProgress = 0,
                             !.errors = <<>>,
                             !.successCount = 0,
                             !.i = 0,
                             !.seen = t.candidates,
                             !.uploadRecord = IF outcome = "ok" THEN id ELSE 0]
    IN  /\ t.pc = "idle"
        /\ t.uploadFile # NoFile
        /\ t.uploadStatus \notin {"uploading", "success"}
        /\ uploadsDB.runs > 0
        /\ outcome \in UploadOutcomes
        /\ uploadsDB' =
            [UploadsAfter(outcome) EXCEPT
                !.runs = @ - 1,
                !.rows = IF outcome # "ok" THEN @
                         ELSE @ \cup {[id |-> id, uploaded_by_user_id |-> u,
                                       status |-> "processing", total_candidates |-> 0,
                                       processed_candidates |-> 0,
                                       failed_candidates |-> 0]}]
        /\ tracker' = [tracker EXCEPT ![u] =
                IF Len(lines) < 2
                THEN UploadFailed(started,
                        "File must contain at least a header row and one data row")
                ELSE IF missingHeaders(headers) # <<>>
                THEN UploadFailed(started, "Missing required columns")
                ELSE [started EXCEPT !.headers = headers,
                                     !.dataLines = Tail(lines),
                                     !.pc = "rows"]]
        /\ UNCHANGED candidatesDB
        /\ UNCHANGED besideTracker

\* mutant: a row whose email already exists is skipped without an entry
errorsAfterRow_silentDuplicate(errors, row, result) ==
    IF result \in {"ok", "already exists"} THEN errors
    ELSE Append(errors, [row |-> row, message |-> result])

\* errors.push(`Row ${i + 2}: ...`) of a row that failed
errorsAfterRow(errors, row, result) ==
    IF result = "ok" THEN errors
    ELSE Append(errors, [row |-> row, message |-> result])

\* what one pass of the loop finds for the data line at index i, the insert answering
\* with outcome when the row reaches it
rowResult(t, outcome) ==
    LET cd == candidateDataOf(t.headers, t.dataLines[t.i + 1])
    IN  IF cd.threw THEN "Invalid time value"
        ELSE IF cd.full_name \in {undefined, <<>>} \/ cd.email \in {undefined, <<>>}
        THEN "Missing name or email"
        ELSE IF \E c \in t.seen : c.email = cd.email THEN "already exists"
        ELSE IF outcome # "ok" THEN "Database error"
        ELSE "ok"

\* one pass of the loop of processBulkUpload over the data line at index i
uploadRow(u, outcome) ==
    LET t == tracker[u]
        cd == candidateDataOf(t.headers, t.dataLines[t.i + 1])
        result == rowResult(t, outcome)
    IN  /\ t.pc = "rows"
        /\ outcome \in UploadOutcomes
        /\ rowResult(t, "ok") # "ok" => outcome = "ok"
        /\ candidatesDB' =
                IF result # "ok" THEN candidatesDB
                ELSE candidatesDB \cup
                        {[id |-> Cardinality(candidatesDB) + 1,
                          full_name |-> cd.full_name, email |-> cd.email,
                          phone |-> cd.phone, exam_name |-> cd.exam_name,
                          exam_date |-> cd.exam_date, notes |-> cd.notes,
                          status |-> "registered", user_id |-> u]}
        /\ tracker' = [tracker EXCEPT ![u] =
                [@ EXCEPT !.errors = errorsAfterRow(@, t.i + 2, result),
                          !.successCount = IF result = "ok" THEN @ + 1 ELSE @,
                          \* Math.round(((i + 1) / dataLines.length) * 100)
                          !.uploadProgress = (200 * (t.i + 1) + Len(t.dataLines))
                                                \div (2 * Len(t.dataLines)),
                          !.i = @ + 1,
                          !.pc = IF t.i + 1 < Len(t.dataLines) THEN "rows" ELSE "finish"]]
        /\ uploadsDB' = UploadsAfter(outcome)
        /\ UNCHANGED besideTracker

\* processBulkUpload after the loop: the upload record, whose update is not looked
\* at, the results, and the reload when a row was inserted
uploadFinish(u, outcome) ==
    LET t == tracker[u]
        failed == Len(t.errors) = Len(t.dataLines)
    IN  /\ t.pc = "finish"
        /\ outcome \in UploadOutcomes
        /\ t.uploadRecord = 0 => outcome = "ok"
        /\ uploadsDB' =
            [UploadsAfter(outcome) EXCEPT
                !.rows = IF outcome # "ok" \/ t.uploadRecord = 0 THEN @
                         ELSE {IF r.id # t.uploadRecord THEN r
                               ELSE [r EXCEPT !.total_candidates = Len(t.dataLines),
                                              !.processed_candidates = t.successCount,
                                              !.failed_candidates = Len(t.errors),
                                              !.status = IF failed THEN "failed"
                                                         ELSE "completed"] : r \in @}]
        /\ tracker' = [tracker EXCEPT ![u] =
                [@ EXCEPT !.uploadResults = [success |-> t.successCount,
                                             errors |-> t.errors],
                          !.uploadStatus = IF failed THEN "error" ELSE "success",
                          !.loading = IF t.successCount > 0 THEN TRUE ELSE @,
                          !.pc = IF t.successCount > 0 THEN "reload" ELSE "idle"]]
        /\ UNCHANGED candidatesDB
        /\ UNCHANGED besideTracker

\* one step of the tracker of user u
TrackerStep(u) ==
    \/ \E outcome \in {"ok", "error"} : loadCandidates(u, outcome)
    \/ \E file \in UploadFiles : handleFileUpload(u, file)
    \/ \E outcome \in {"ok", "error"} : processBulkUpload(u, outcome)
    \/ \E outcome \in {"ok", "error"} : uploadRow(u, outcome)
    \/ \E outcome \in {"ok", "error"} : uploadFinish(u, outcome)

\* no checklist page is mounted
ChecklistUnmounted ==
    /\ templateItemsDB = InitTemplateItems
    /\ instancesDB = {}
    /\ instanceItemsDB = {}
    /\ ck = [u \in Users |-> CkOff]

\* the six documented columns in every order
DocumentedHeaders ==
    LET columns == <<Txt_full_name, Txt_email, Txt_phone, Txt_exam_name, Txt_exam_date,
                     Txt_notes>>
        n == Len(columns)
        orders == {f \in [1 .. n -> 1 .. n] : \A a, b \in 1 .. n : f[a] = f[b] => a = b}
    IN  {[k \in 1 .. n |-> columns[f[k]]] : f \in orders}

\* the cell a data line holds under a column: a text that tells the columns apart
cellUnder(column) ==
    CASE column = Txt_full_name -> <<"A">>
      [] column = Txt_email -> <<"x">>
      [] column = Txt_phone -> <<"7">>
      [] column = Txt_exam_name -> <<"E">>
      [] column = Txt_exam_date -> <<"2", "0", "2", "5">>
      [] column = Txt_notes -> <<"n">>

\* no loop body has run
NoCandidateData == [headers |-> <<>>, line |-> <<>>, record |-> EmptyCandidate, built |-> FALSE]

\* the loop body of processBulkUpload up to the validation of the record, for the
\* header and the data line drawn
buildCandidateData ==
    /\ ~candidateData.built
    /\ candidateData' =
            [candidateData EXCEPT
                !.record = candidateDataOf(headersOf(<<candidateData.headers>>),
                                           candidateData.line),
                !.built = TRUE]
    /\ UNCHANGED <<calVars, rosterVars, checklistVars, trackerVars, dateStr, sw>>

\* no candidate tracker is mounted
TrackerUnmounted ==
    /\ candidateData = NoCandidateData
    /\ dateStr = NoDateStr
    /\ sw = NoWorker
    /\ candidatesDB = InitCandidates
    /\ uploadsDB = [rows |-> {}, uploads |-> 0, runs |-> 0, failures |-> 0, clicks |-> 0]
    /\ tracker = [u \in Users |-> TrackerOff]

(***************************************************************************)
(* The roster's specifications.                                            *)
(***************************************************************************)
\* one step of the session of user u
RosterStep(u) ==
    \/ \E outcome \in {"ok", "early", "late"} : loadData(u, outcome)
    \/ \E direction \in {-1, 1} : navigateMonth(u, direction)
    \/ \E p \in StaffProfilesDB, day \in EditDays : handleEditShift(u, p.id, day)
    \/ cancelEdit(u)
    \/ \E code \in ShiftInputs, outcome \in {"ok", "error"} : saveShift(u, code, outcome)
    \/ \E outcome \in {"ok", "error"} : versionDeactivate(u, outcome)
    \/ \E outcome \in {"ok", "error"} : versionInsert(u, outcome)
    \/ \E outcome \in {"ok", "error"} : quickAddMonth(u, outcome)
    \/ \E outcome \in {"ok", "error"} : deleteRoster(u, outcome)
    \/ \E outcome \in {"ok", "error"} : deactivateAll(u, outcome)
    \/ \E r \in InitRequests : reviewRequest(u, r.id)
    \/ cancelApproval(u)
    \/ \E approved \in BOOLEAN, outcome \in {"ok", "error"} :
          approveRequest(u, approved, outcome)
    \/ \E outcome \in {"ok", "error"} : applyApprovedRequest(u, outcome)

\* the tables when a behaviour starts, for a ledger of k versions
InitRemote(k) ==
    /\ schedulesDB = {}
    /\ scheduleSeq = 0
    /\ versionsDB = InitLedger(k)
    /\ requestsDB = InitRequests

\* no roster is mounted: the behaviours of the calendar
RosterUnmounted ==
    /\ InitRemote(0)
    /\ ui = [u \in Users |-> UiMounting(330)]
    /\ run = [u \in Users |-> RunOff]
    /\ log = [u \in Users |-> NoLog]
    /\ budget = [ops |-> 0, failures |-> 0]

\* SpecSeq: the single session of the super admin u1, in any of the time zones,
\* its handlers one after the other
InitSeq ==
    /\ InitCal
    /\ \E k \in {0, MaxInitVersions} : InitRemote(k)
    /\ \E tzOffset \in TzOffsets :
          ui = [u \in Users |-> UiMounting(tzOffset)]
    /\ run = [u \in Users |-> IF u = "u1" THEN RunMount ELSE RunOff]
    /\ log = [u \in Users |-> NoLog]
    /\ budget = [ops |-> MaxSeqOps, failures |-> MaxFailures]
    /\ ChecklistUnmounted
    /\ TrackerUnmounted

NextSeq == RosterStep("u1")

SpecSeq == InitSeq /\ [][NextSeq]_vars

\* SpecConc: the sessions of u1 and u2, both in Kolkata, their remote calls interleaved
InitConc ==
    /\ InitCal
    /\ \E k \in {0, 1} : InitRemote(k)
    /\ ui = [u \in Users |-> UiMounting(330)]
    /\ run = [u \in Users |-> RunMount]
    /\ log = [u \in Users |-> NoLog]
    /\ budget = [ops |-> MaxConcOps, failures |-> MaxConcFailures]
    /\ ChecklistUnmounted
    /\ TrackerUnmounted

NextConc == \E u \in Users : RosterStep(u)

SpecConc == InitConc /\ [][NextConc]_vars

(***************************************************************************)
(* SpecCapacity: the count input alone, over every count up to MaxCount.   *)
(***************************************************************************)
InitCapacity ==
    /\ sessionsDB = {}
    /\ sessions = {}
    /\ formData = 1
    /\ editingSession = 0
    /\ showModal = TRUE
    /\ calNotification = NoNotification
    /\ capacityChecked = NoCheck
    /\ calLog = [submits |-> 0, writes |-> 0]
    /\ RosterUnmounted
    /\ ChecklistUnmounted
    /\ TrackerUnmounted

NextCapacity ==
    \E raw \in RawCounts : onCountChange(raw)

SpecCapacity == InitCapacity /\ [][NextCapacity]_vars

(***************************************************************************)
(* SpecCal: the calendar's create and edit submissions.                    *)
(***************************************************************************)
NextCal ==
    \/ openModalNew
    \/ \E id \in 1 .. MaxSessions : openModalEdit(id)
    \/ \E raw \in CalRawCounts : onCountChange(raw)
    \/ \E writeOk \in BOOLEAN, loadOk \in BOOLEAN : handleSubmit(writeOk, loadOk)
    \/ closeModal

\* the calendar mounted, no roster beside it
InitCalendar ==
    /\ InitCal
    /\ RosterUnmounted
    /\ ChecklistUnmounted
    /\ TrackerUnmounted

SpecCal == InitCalendar /\ [][NextCal]_vars

\* SpecChecklist: the checklist pages of u1 and u2, their remote calls interleaved
InitChecklist ==
    /\ InitCal
    /\ RosterUnmounted
    /\ TrackerUnmounted
    /\ templateItemsDB = InitTemplateItems
    /\ instancesDB = {}
    /\ instanceItemsDB = {}
    /\ ck = [u \in Users |-> CkMounting]

NextChecklist == \E u \in Users : ChecklistStep(u)

SpecChecklist == InitChecklist /\ [][NextChecklist]_vars

\* SpecToggle: the checklist pages of u1 and u2 showing the instance u1 made of t1,
\* its items being toggled
InitToggle ==
    /\ InitCal
    /\ RosterUnmounted
    /\ TrackerUnmounted
    /\ templateItemsDB = InitTemplateItems
    /\ instancesDB = {[id |-> 1, template_id |-> "t1", created_by |-> "u1"]}
    /\ instanceItemsDB = InstanceItemsOf(1, InitTemplateItems)
    /\ ck = [u \in Users |-> CkMounting]

NextToggle ==
    \E u \in Users :
        \/ \E t \in {"ok", "error"}, i \in {"ok", "error"} : ckLoadData(u, t, i)
        \/ \E outcome \in {"ok", "error"} : ckLoadInstances(u, outcome)
        \/ \E outcome \in {"ok", "error"} : handleToggleItem(u, outcome)

SpecToggle == InitToggle /\ [][NextToggle]_vars

\* SpecUpload: the candidate trackers of u1 and u2, their remote calls interleaved
InitUpload ==
    /\ InitCal
    /\ RosterUnmounted
    /\ ChecklistUnmounted
    /\ candidateData = NoCandidateData
    /\ dateStr = NoDateStr
    /\ sw = NoWorker
    /\ candidatesDB = InitCandidates
    /\ uploadsDB = [rows |-> {}, uploads |-> MaxUploads, runs |-> MaxUploadRuns,
                    failures |-> MaxUploadFailures, clicks |-> 0]
    /\ tracker = [u \in Users |-> TrackerMounting]

NextUpload == \E u \in Users : TrackerStep(u)

SpecUpload == InitUpload /\ [][NextUpload]_vars

\* SpecStatus: the candidate trackers of u1 and u2 showing one candidate, the status
\* buttons of its card being pressed
MaxClicks == 4
MaxStatusFailures == 1

InitStatus ==
    /\ InitCal
    /\ RosterUnmounted
    /\ ChecklistUnmounted
    /\ candidateData = NoCandidateData
    /\ dateStr = NoDateStr
    /\ sw = NoWorker
    /\ candidatesDB = InitCandidates
    /\ uploadsDB = [rows |-> {}, uploads |-> 0, runs |-> 0,
                    failures |-> MaxStatusFailures, clicks |-> MaxClicks]
    /\ tracker = [u \in Users |-> TrackerMounting]

NextStatus ==
    \E u \in Users :
        \/ \E outcome \in {"ok", "error"} : loadCandidates(u, outcome)
        \/ \E outcome \in {"ok", "error"} : handleUpdateStatus(u, outcome)

SpecStatus == InitStatus /\ [][NextStatus]_vars

\* SpecColumns: the record built for one data line under each order of the documented
\* columns
InitColumns ==
    /\ InitCal
    /\ RosterUnmounted
    /\ ChecklistUnmounted
    /\ candidatesDB = InitCandidates
    /\ uploadsDB = [rows |-> {}, uploads |-> 0, runs |-> 0, failures |-> 0, clicks |-> 0]
    /\ tracker = [u \in Users |-> TrackerOff]
    /\ dateStr = NoDateStr
    /\ sw = NoWorker
    /\ \E header \in DocumentedHeaders :
            candidateData =
                [NoCandidateData EXCEPT
                    !.headers = join(header, <<",">>),
                    !.line = join([k \in 1 .. 6 |-> cellUnder(header[k])], <<",">>)]

SpecColumns == InitColumns /\ [][buildCandidateData]_vars

\* const dateStr = formatDateForIST(date), for the two instants drawn
formatDates ==
    /\ ~dateStr.done
    /\ dateStr' = [dateStr EXCEPT
                      !.strs = <<formatDateForIST(dateStr.dates[1]),
                                 formatDateForIST(dateStr.dates[2])>>,
                      !.done = TRUE]
    /\ UNCHANGED <<calVars, rosterVars, checklistVars, trackerVars, candidateData, sw>>

\* SpecFormat: formatDateForIST applied to two instants of any callers
InitFormat ==
    /\ InitCal
    /\ RosterUnmounted
    /\ ChecklistUnmounted
    /\ candidatesDB = InitCandidates
    /\ uploadsDB = [rows |-> {}, uploads |-> 0, runs |-> 0, failures |-> 0, clicks |-> 0]
    /\ tracker = [u \in Users |-> TrackerOff]
    /\ candidateData = NoCandidateData
    /\ sw = NoWorker
    /\ \E d1 \in CallerInstants, d2 \in CallerInstants :
            dateStr = [NoDateStr EXCEPT !.dates = <<d1, d2>>]

SpecFormat == InitFormat /\ [][formatDates]_vars

(***************************************************************************)
(* The service worker.                                                     *)
(***************************************************************************)
\* fetch events of one behaviour
MaxFetches == 3

\* urlsToCache, of which two: the page and its script
urlsToCache == {"/", "/bundle.js"}

\* the requests of the pages: the shell, a page and a script of the application, a call
\* of the data service
Requests ==
    {[url |-> "/", destination |-> "document"],
     [url |-> "/app", destination |-> "document"],
     [url |-> "/bundle.js", destination |-> "script"],
     [url |-> "/api", destination |-> ""]}

\* the fetch that rejects
rejected == [status |-> 0, type |-> "error"]

\* what the network answers: responses of the origin and of another
NetworkResponses ==
    {[status |-> 200, type |-> "basic"], [status |-> 404, type |-> "basic"],
     [status |-> 200, type |-> "cors"]}

\* the install event: cache.addAll(urlsToCache) stores all the urls or, when one of
\* them cannot be fetched, none; the error is caught and the worker installs
install(outcome) ==
    /\ sw.state = "parsed"
    /\ sw' = [sw EXCEPT
                !.state = "installed",
                !.cache = IF outcome # "ok" THEN @
                          ELSE [url \in DOMAIN @ |->
                                    IF url \in urlsToCache
                                    THEN [status |-> 200, type |-> "basic"] ELSE @[url]]]
    /\ UNCHANGED <<calVars, rosterVars, checklistVars, trackerVars, candidateData, dateStr>>

\* !(!response || response.status !== 200 || response.type !== 'basic')
validResponse(response) == response.status = 200 /\ response.type = "basic"

\* what respondWith gets for a request: the match of the cache; else the response of
\* the network; else, the network failing, the match of '/' for a document (undefined
\* when there is none) and a 503 response for anything else
answerOf(request, network) ==
    IF sw.cache[request.url] # NoEntry
    THEN [from |-> "cache", response |-> sw.cache[request.url]]
    ELSE IF network # rejected THEN [from |-> "network", response |-> network]
    ELSE IF request.destination = "document"
    THEN IF sw.cache["/"] # NoEntry THEN [from |-> "cache", response |-> sw.cache["/"]]
         ELSE [from |-> "undefined", response |-> NoEntry]
    ELSE [from |-> "worker", response |-> [status |-> 503, type |-> "default"]]

\* the fetch event listener, up to the answer it gives; the put of a valid response
\* is started and not waited for
onFetch(request, network) ==
    LET hit == sw.cache[request.url] # NoEntry
    IN  /\ sw.state = "installed"
        /\ sw.handled < MaxFetches
        /\ hit => network = rejected
        /\ sw' = [sw EXCEPT
                    !.handled = @ + 1,
                    !.puts = IF ~hit /\ network # rejected /\ validResponse(network)
                             THEN @ \cup {[url |-> request.url, response |-> network]}
                             ELSE @,
                    !.last = [url |-> request.url, destination |-> request.destination,
                              hit |-> hit,
                              network |-> IF hit THEN "none"
                                          ELSE IF network = rejected THEN "failed"
                                          ELSE "answered",
                              answer |-> answerOf(request, network)]]
        /\ UNCHANGED <<calVars, rosterVars, checklistVars, trackerVars, candidateData,
                       dateStr>>

\* caches.open(CACHE_NAME).then(cache => cache.put(event.request, responseToCache))
cachePut ==
    /\ \E put \in sw.puts :
          sw' = [sw EXCEPT !.puts = @ \ {put},
                           !.cache = [@ EXCEPT ![put.url] = put.response]]
    /\ UNCHANGED <<calVars, rosterVars, checklistVars, trackerVars, candidateData,
                   dateStr>>

\* SpecWorker: the service worker from its registration on
InitWorker ==
    /\ InitCal
    /\ RosterUnmounted
    /\ ChecklistUnmounted
    /\ candidatesDB = InitCandidates
    /\ uploadsDB = [rows |-> {}, uploads |-> 0, runs |-> 0, failures |-> 0, clicks |-> 0]
    /\ tracker = [u \in Users |-> TrackerOff]
    /\ candidateData = NoCandidateData
    /\ dateStr = NoDateStr
    /\ sw = [NoWorker EXCEPT !.state = "parsed"]

NextWorker ==
    \/ \E outcome \in {"ok", "error"} : install(outcome)
    \/ \E request \in Requests, network \in NetworkResponses \cup {rejected} :
          onFetch(request, network)
    \/ cachePut

SpecWorker == InitWorker /\ [][NextWorker]_vars

(***************************************************************************)
(* C1: for every candidate count c, validateSessionCapacity(c) is the      *)
(* reference table: c > 40 is invalid with the fixed error text and no     *)
(* warning; 30 <= c <= 40 is valid with the warning text naming c/40 and   *)
(* no error; c < 30 is valid with neither message.  So isValid holds       *)
(* exactly when c <= 40 and a warning exactly when 30 <= c <= 40.          *)
(***************************************************************************)
ReferenceTable(c) ==
    CASE c > 40 ->
            [isValid |-> FALSE, warning |-> Undefined,
             error |-> <<"Session exceeds maximum capacity of ", "4", "0", " candidates">>]
      [] c >= 30 /\ c <= 40 ->
            [isValid |-> TRUE,
             warning |-> <<"Session approaching capacity (">> \o toString(c)
                            \o <<"/", "4", "0", " candidates)">>,
             error |-> Undefined]
      [] c < 30 ->
            [isValid |-> TRUE, warning |-> Undefined, error |-> Undefined]

C1_CapacityTable ==
    capacityChecked.done =>
        /\ capacityChecked.result = ReferenceTable(capacityChecked.count)
        /\ capacityChecked.result.isValid <=> capacityChecked.count <= 40
        /\ capacityChecked.result.warning # Undefined
              <=> (30 <= capacityChecked.count /\ capacityChecked.count <= 40)

\* the count 40 has been validated: valid, with the warning for 40/40
C1_Witness ==
    /\ capacityChecked.done
    /\ capacityChecked.count = 40
    /\ capacityChecked.result.isValid
    /\ capacityChecked.result.warning =
          <<"Session approaching capacity (", "4", "0", "/", "4", "0", " candidates)">>

(***************************************************************************)
(* C2: in handleSubmit, a form whose candidate_count is greater than 40    *)
(* is blocked before any remote call: no insert or update is issued, the   *)
(* stored sessions are unchanged and an error notification is shown.  So   *)
(* every session row written by handleSubmit has candidate_count <= 40.    *)
(***************************************************************************)
C2_BlockedStep ==
    (calLog'.submits # calLog.submits /\ formData > 40) =>
        /\ calLog'.writes = calLog.writes
        /\ sessionsDB' = sessionsDB
        /\ calNotification' =
              Notify("error",
                     <<"Session exceeds maximum capacity of ", "4", "0", " candidates">>)

C2_OverCapacityBlocked ==
    /\ [](\A s \in sessionsDB : s.candidate_count <= 40)
    /\ [][C2_BlockedStep]_vars

\* a submission of more than 40 candidates was refused while a stored session exists
C2_Witness ==
    /\ capacityChecked.done
    /\ capacityChecked.count > 40
    /\ formData > 40
    /\ calLog.submits > calLog.writes
    /\ calNotification.type = "error"
    /\ sessionsDB # {}

(***************************************************************************)
(* What the claims speak of.                                               *)
(***************************************************************************)
\* the ledger rows of a month, as the ids in creation order
LedgerIds(month) == {i \in 1 .. Len(versionsDB) : versionsDB[i].month = month}
\* how many rows of the month were created before row i
EarlierIn(month, i) == Cardinality({j \in LedgerIds(month) : j < i})
\* "v." followed by n, zero-padded to two digits
VersionText(n) ==
    <<"v", ".">> \o (IF n < 10 THEN <<"0", DigitChar[n + 1]>> ELSE toString(n))
\* the numeric suffix of a version number
SuffixOf(row) == parseInt(SubSeq(row.version_number, 3, Len(row.version_number))).value
\* a handler of user u is, or was last, a record-edit whose version insert succeeded
EditInserted(u) == log[u].insert = "ok"
\* the rows of a store for a (staff, date) key
RowsFor(store, key) == {s \in store : s.profile_id = key.profileId /\ s.date = key.date}

(***************************************************************************)
(* C3: in a single session whose operations do not overlap, after every    *)
(* record-edit whose version insert succeeded (from saveShift,             *)
(* quickAddMonth or an approval, in any order, also after a deleteRoster)  *)
(* exactly one version of the affected month is active.                    *)
(***************************************************************************)
C3_ExactlyOneActive ==
    \A u \in Users :
        EditInserted(u) => Cardinality(ActiveVersions(log[u].scope)) = 1

(***************************************************************************)
(* C4: in a single session whose operations do not overlap, each           *)
(* successful record-edit of a month inserts the version numbered one more *)
(* than the most recently created version of the month, written "v." and   *)
(* the number zero-padded to two digits: the first is "v.01", and "v.09"   *)
(* is followed by "v.10".                                                  *)
(***************************************************************************)
C4_NumberingBySuccession ==
    \A month \in 1 .. NumMonths : \A i \in LedgerIds(month) :
        /\ versionsDB[i].version_number = VersionText(EarlierIn(month, i) + 1)
        /\ \A j \in LedgerIds(month) :
              (j < i /\ EarlierIn(month, j) + 1 = EarlierIn(month, i)) =>
                  SuffixOf(versionsDB[i]) = SuffixOf(versionsDB[j]) + 1

\* the session has just inserted "v.10" after "v.09"
C4_Witness ==
    /\ EditInserted("u1")
    /\ log["u1"].newId = 10
    /\ versionsDB[9].version_number = <<"v", ".", "0", "9">>
    /\ versionsDB[10].version_number = <<"v", ".", "1", "0">>
    /\ versionsDB[9].month = versionsDB[10].month

(***************************************************************************)
(* C5: version numbers are strictly increasing within a month in every     *)
(* behaviour: whatever the interleaving of the record-edits of two         *)
(* editors, a row created later carries a greater number than every row    *)
(* created earlier, so no two rows of a month share a version_number.      *)
(***************************************************************************)
C5_StrictlyIncreasing ==
    \A month \in 1 .. NumMonths : \A i, j \in LedgerIds(month) :
        i < j => /\ SuffixOf(versionsDB[i]) < SuffixOf(versionsDB[j])
                 /\ versionsDB[i].version_number # versionsDB[j].version_number

(***************************************************************************)
(* C6: record-edit is a deactivate-then-insert pair computed from each     *)
(* client's cached current version, so two editors running it              *)
(* concurrently on the same month leave two active versions: when each     *)
(* edit started before the other's insert, both inserted rows are active.  *)
(***************************************************************************)
Overlapping(u, w) ==
    /\ u # w
    /\ EditInserted(u)
    /\ EditInserted(w)
    /\ log[u].scope = log[w].scope
    /\ log[u].ledgerAtStart < log[w].newId
    /\ log[w].ledgerAtStart < log[u].newId

C6_RaceLeavesTwoActive ==
    \A u, w \in Users :
        Overlapping(u, w) =>
            /\ versionsDB[log[u].newId].is_active
            /\ versionsDB[log[w].newId].is_active
            /\ Cardinality(ActiveVersions(log[u].scope)) >= 2

\* both editors deactivated the version they had cached and inserted their own
C6_Witness ==
    /\ Overlapping("u1", "u2")
    /\ log["u1"].deactivate = "ok"
    /\ log["u2"].deactivate = "ok"
    /\ Cardinality(ActiveVersions(log["u1"].scope)) = 2

(***************************************************************************)
(* C7: when a record-edit is interrupted between its two steps (the        *)
(* deactivation of the current version succeeded, the insert failed or     *)
(* has not happened) the month is left with no active version: nothing in  *)
(* createNewVersion or its callers re-activates the old row.               *)
(***************************************************************************)
Interrupted(u) ==
    /\ log[u].op \in {"saveShift", "quickAddMonth", "approveRequest"}
    /\ log[u].deactivate = "ok"
    /\ log[u].insert \in {"pending", "failed"}

C7_InterruptedLeavesNoActive ==
    \A u \in Users : Interrupted(u) => ActiveVersions(log[u].scope) = {}

\* the insert has failed after the deactivation, and the handler has finished
C7_Witness ==
    /\ Interrupted("u1")
    /\ log["u1"].insert = "failed"
    /\ run["u1"].pc = "idle"
    /\ LedgerIds(log["u1"].scope) # {}
    /\ ActiveVersions(log["u1"].scope) = {}

(***************************************************************************)
(* C8: no operation reactivates an old version: a row whose is_active has  *)
(* become false is never set to true again, no row is deleted and no       *)
(* version_number changes; an active version only arises as a new row.     *)
(***************************************************************************)
C8_Step ==
    /\ Len(versionsDB') >= Len(versionsDB)
    /\ \A i \in 1 .. Len(versionsDB) :
        /\ versionsDB'[i].id = versionsDB[i].id
        /\ versionsDB'[i].month = versionsDB[i].month
        /\ versionsDB'[i].version_number = versionsDB[i].version_number
        /\ ~versionsDB[i].is_active => ~versionsDB'[i].is_active

C8_NoReactivation == [][C8_Step]_vars

\* an old version is inactive beside a newer active one
C8_Witness ==
    \E i, j \in 1 .. Len(versionsDB) :
        /\ i < j
        /\ versionsDB[i].month = versionsDB[j].month
        /\ ~versionsDB[i].is_active
        /\ versionsDB[j].is_active

(***************************************************************************)
(* C9: saveShift is an upsert by (staff profile id, date): when the store  *)
(* holds a row for the key, that row is updated to the chosen shift code   *)
(* and no row is inserted; otherwise exactly one row is inserted; either   *)
(* way the store then holds a row for the key with the chosen code.        *)
(***************************************************************************)
C9_UpsertByKey ==
    \A u \in Users :
        (log[u].op = "saveShift" /\ log[u].wrote = "ok") =>
            LET before == RowsFor(log[u].storeBefore, log[u].key)
                after == RowsFor(log[u].storeAfter, log[u].key)
            IN  /\ before # {} =>
                      /\ {s.id : s \in after} = {s.id : s \in before}
                      /\ \E s \in after : s.shift_code = log[u].shift
                                            /\ s.overtime_hours = 0
                                            /\ s.status = "confirmed"
                /\ before = {} => Cardinality(after) = 1
                /\ \E s \in after : s.shift_code = log[u].shift

(***************************************************************************)
(* C10: quickAddMonth never overwrites a schedule row: every row of the    *)
(* store before the operation is there unchanged after it, and rows are    *)
(* inserted only for (staff, date) pairs absent from the store.            *)
(***************************************************************************)
C10_QuickAddOnlyAbsent ==
    \A u \in Users :
        (log[u].op = "quickAddMonth" /\ log[u].wrote = "ok") =>
            /\ log[u].storeBefore \subseteq log[u].storeAfter
            /\ \A r \in log[u].storeAfter \ log[u].storeBefore :
                  RowsFor(log[u].storeBefore, [profileId |-> r.profile_id, date |-> r.date]) = {}

(***************************************************************************)
(* C11: on a displayed month of D days with S staff profiles and no        *)
(* schedule rows, quickAddMonth inserts exactly S * D rows, one per (staff *)
(* member, calendar day of the displayed month), the rest-day code on the  *)
(* zero-based day indices i with i mod 7 = 6, counted from day 1 of the    *)
(* month for each member, and the standard day code on all other days.     *)
(***************************************************************************)
QuickAddedFrom(u) ==
    /\ log[u].op = "quickAddMonth"
    /\ log[u].wrote = "ok"
    /\ log[u].storeBefore = {}

C11_QuickAddFillsMonth ==
    \A u \in Users :
        QuickAddedFrom(u) =>
            /\ Cardinality(log[u].storeAfter) = Cardinality(StaffProfilesDB) * DaysPerMonth
            /\ \A p \in StaffProfilesDB, i \in 0 .. DaysPerMonth - 1 :
                  LET cell == RowsFor(log[u].storeAfter,
                                      [profileId |-> p.id, date |-> DayOf(log[u].scope, i + 1)])
                  IN  /\ Cardinality(cell) = 1
                      /\ \A r \in cell :
                            r.shift_code = IF i % 7 = 6 THEN "RD" ELSE "D"

(***************************************************************************)
(* C12: approved and rejected are terminal states of a leave request: in   *)
(* any sequence or interleaving of approve and reject actions of super     *)
(* admin sessions, also with a stale request list or an approval modal     *)
(* left open, a request stored as approved or rejected never changes       *)
(* status again.                                                           *)
(***************************************************************************)
C12_Step ==
    \A r \in requestsDB :
        r.status \in {"approved", "rejected"} =>
            \A after \in requestsDB' : after.id = r.id => after.status = r.status

C12_DecisionIsTerminal == [][C12_Step]_vars

(***************************************************************************)
(* C13: only a super admin can move a request out of pending:              *)
(* approveRequest invoked in a session whose user has no super_admin       *)
(* staff profile changes nothing: the requests, the Schedule Store and the *)
(* version ledger are left as they were, and no remote call follows.       *)
(***************************************************************************)
C13_Step ==
    \A u \in Users, approved \in BOOLEAN, outcome \in {"ok", "error"} :
        (~isSuperAdmin(u) /\ approveRequest(u, approved, outcome)) =>
            /\ requestsDB' = requestsDB
            /\ schedulesDB' = schedulesDB
            /\ versionsDB' = versionsDB
            /\ run'[u].pc = "idle"

C13_OnlySuperAdminDecides == [][C13_Step]_vars

\* approveRequest has returned at its role check, the request still pending
C13_Witness ==
    /\ log["u1"].op = "approveRequest"
    /\ log["u1"].wrote = "refused"
    /\ ~isSuperAdmin("u1")
    /\ ui["u1"].showApprovalModal
    /\ \E r \in requestsDB : r.id = ui["u1"].selectedRequest.id /\ r.status = "pending"

(***************************************************************************)
(* C14: approving a half_day request of staff X for date d leaves the      *)
(* Schedule Store with a row for (X, d) whose shift code is "HD" and with  *)
(* no other shift for (X, d), whether or not a row existed before and      *)
(* whether d is inside or outside the month the approver displays; a       *)
(* leave request does the same with "L".                                   *)
(***************************************************************************)
AppliedRequest(u) ==
    /\ log[u].op = "approveRequest"
    /\ log[u].wrote = "ok"
    /\ log[u].requestType \in {"half_day", "leave"}

C14_ApprovalOverwrites ==
    \A u \in Users :
        AppliedRequest(u) =>
            LET cell == RowsFor(log[u].storeAfter, log[u].key)
            IN  /\ cell # {}
                /\ \A r \in cell :
                      r.shift_code = IF log[u].requestType = "half_day" THEN "HD" ELSE "L"

(***************************************************************************)
(* C15: approving a swap request (shift_swap or off_day_swap) only records *)
(* the approval: the Schedule Store rows of the requester and of the swap  *)
(* partner are the same after the approval as before it.                   *)
(***************************************************************************)
C15_Step ==
    \A u \in Users :
        (run[u].op = "approveRequest"
            /\ ui[u].selectedRequest.request_type \in {"shift_swap", "off_day_swap"}) =>
                LET swap == ui[u].selectedRequest
                    Of(store) == {s \in store :
                                    s.profile_id \in {swap.user_id, swap.swap_with_user_id}}
                IN  Of(schedulesDB') = Of(schedulesDB)

C15_SwapOnlyRecorded == [][C15_Step]_vars

(***************************************************************************)
(* C20: every remote failure during a roster edit is surfaced: when a      *)
(* remote call made by saveShift fails (the schedule update or insert, the *)
(* deactivation of the current version, or the insert of the new version)  *)
(* the operation ends with an error notification, never with the success   *)
(* notification.                                                           *)
(***************************************************************************)
SaveShiftEndedAfterFailure(u) ==
    /\ log[u].op = "saveShift"
    /\ run[u].pc = "idle"
    /\ \/ log[u].wrote = "error"
       \/ log[u].deactivate = "failed"
       \/ log[u].insert = "failed"

C20_FailureSurfaced ==
    \A u \in Users :
        SaveShiftEndedAfterFailure(u) => ui[u].notification.type = "error"

(***************************************************************************)
(* C16: checklist instantiation is a structural copy: for a template with  *)
(* N items, every instance handleCreateInstance has created has exactly N  *)
(* instance items, each not completed with completed_by and completed_at   *)
(* unset, each referencing a distinct item of the template, in every       *)
(* outcome of the operation that leaves an instance row in the store.      *)
(***************************************************************************)
InstanceLeftBy(u) ==
    /\ ck[u].created # 0
    /\ ck[u].pc # "insertItems"
    /\ \E i \in instancesDB : i.id = ck[u].created

C16_StructuralCopy ==
    \A u \in Users :
        InstanceLeftBy(u) =>
            LET copied == {x \in instanceItemsDB : x.instance_id = ck[u].created}
            IN  /\ Cardinality(copied) = Cardinality(ck[u].sourceItems)
                /\ {x.template_item_id : x \in copied} = {i.id : i \in ck[u].sourceItems}
                /\ \A x \in copied : /\ ~x.is_completed
                                     /\ x.completed_by = Null
                                     /\ x.completed_at = Null

(***************************************************************************)
(* C17: in processBulkUpload a failing row does not abort the batch: every *)
(* data row of a file that passed header validation is processed exactly   *)
(* once, in order; a row that fails adds exactly one entry, carrying its    *)
(* row number, to the error list and the loop goes on with the next row;    *)
(* a row that succeeds adds one to the success count; after the last row    *)
(* success count + number of errors = N and both are put in uploadResults.  *)
(***************************************************************************)
C17_Step ==
    \A u \in Users :
        LET t == tracker[u]
            t2 == (tracker')[u]
        IN  /\ (t.pc = "rows" /\ t2 # t) =>
                /\ t2.i = t.i + 1
                /\ t2.dataLines = t.dataLines
                /\ t2.pc = IF t2.i < Len(t.dataLines) THEN "rows" ELSE "finish"
                /\ \/ /\ t2.successCount = t.successCount + 1
                      /\ t2.errors = t.errors
                   \/ /\ t2.successCount = t.successCount
                      /\ Len(t2.errors) = Len(t.errors) + 1
                      /\ SubSeq(t2.errors, 1, Len(t.errors)) = t.errors
                      /\ t2.errors[Len(t2.errors)].row = t.i + 2
            /\ (t.pc = "finish" /\ t2 # t) =>
                /\ t.i = Len(t.dataLines)
                /\ t.successCount + Len(t.errors) = Len(t.dataLines)
                /\ t2.uploadResults = [success |-> t.successCount, errors |-> t.errors]
                /\ t2.uploadStatus \in {"success", "error"}

C17_FailingRowDoesNotAbort == [][C17_Step]_vars

\* an upload has ended with a failed first row and an inserted second row
C17_Witness ==
    \E u \in Users :
        /\ tracker[u].pc \in {"reload", "idle"}
        /\ tracker[u].uploadStatus = "success"
        /\ tracker[u].uploadResults.success = 1
        /\ Len(tracker[u].uploadResults.errors) = 1
        /\ tracker[u].uploadResults.errors[1].row = 2

(***************************************************************************)
(* C18: a CSV file whose header names the required columns as the upload   *)
(* instructions give them (full_name and email, optionally phone,          *)
(* exam_name, exam_date, notes) and that has at least one data row is not  *)
(* rejected by processBulkUpload with a missing-required-columns error.    *)
(***************************************************************************)
DocumentedColumns ==
    {Txt_full_name, Txt_email, Txt_phone, Txt_exam_name, Txt_exam_date, Txt_notes}

DocumentedFile(file) ==
    /\ file # NoFile
    /\ Len(linesOf(file)) >= 2
    /\ LET columns == split(linesOf(file)[1], ",")
       IN  /\ \A k \in 1 .. Len(columns) : columns[k] \in DocumentedColumns
           /\ \E k \in 1 .. Len(columns) : columns[k] = Txt_full_name
           /\ \E k \in 1 .. Len(columns) : columns[k] = Txt_email

C18_DocumentedHeaderAccepted ==
    \A u \in Users :
        DocumentedFile(tracker[u].uploadFile) =>
            tracker[u].uploadResults.errors # <<"Missing required columns">>

C24_OneRowPerStaffAndDate ==
    \A r1, r2 \in schedulesDB :
        (r1.profile_id = r2.profile_id /\ r1.date = r2.date) => r1.id = r2.id

(***************************************************************************)
(* C25: approval and its schedule effect are applied together or not at    *)
(* all: when the Schedule Store write fails while a super admin approves a *)
(* leave or half_day request, the request is not left with status          *)
(* approved.                                                               *)
(***************************************************************************)
ApplyFailed(u) ==
    /\ log[u].op = "approveRequest"
    /\ log[u].wrote = "error"
    /\ log[u].requestType \in {"half_day", "leave"}
    /\ run[u].pc = "idle"

C25_ApprovalAtomic ==
    \A u \in Users :
        ApplyFailed(u) =>
            \A r \in requestsDB :
                r.id = ui[u].selectedRequest.id => r.status # "approved"

(***************************************************************************)
(* C26: after a successful deleteRoster by a super admin for the displayed *)
(* month, no roster_schedules row dated within that month remains and no   *)
(* roster_versions row of that month has is_active = true, whatever the    *)
(* ledger and the cached current version were before the call.             *)
(***************************************************************************)
DeleteSucceeded(u) ==
    /\ log[u].op = "deleteRoster"
    /\ log[u].wrote = "ok"
    /\ run[u].pc = "idle"
    /\ ui[u].notification = [type |-> "success", message |-> "Roster deleted successfully"]

C26_DeleteClearsMonth ==
    \A u \in Users :
        DeleteSucceeded(u) =>
            /\ \A s \in schedulesDB :
                  ~(DayOf(log[u].scope, 1) <= s.date
                        /\ s.date <= DayOf(log[u].scope, DaysPerMonth))
            /\ ActiveVersions(log[u].scope) = {}

(***************************************************************************)
(* C27: super admin sees all requests: whenever loadData completes         *)
(* successfully for a signed-in user whose staff profile has role          *)
(* super_admin, the first load after the roster mounts included, the       *)
(* requests list holds every leave request of every staff member.          *)
(***************************************************************************)
C27_Step ==
    \A u \in Users :
        ( /\ run[u].pc = "reload"
          /\ (run')[u].pc = "idle"
          /\ (ui')[u].staffProfiles # {}
          /\ \E p \in StaffProfilesDB : p.user_id = u /\ p.role = "super_admin" )
        => requestsDB' \subseteq (ui')[u].requests

C27_SuperAdminSeesAll == [][C27_Step]_vars

(***************************************************************************)
(* C28: processBulkUpload never inserts a candidate whose email equals the *)
(* email of a candidate already in the store, a candidate inserted by an   *)
(* earlier row of the same file included: the emails of the candidates,    *)
(* unique before an upload, are unique after it.                           *)
(***************************************************************************)
C28_EmailsStayUnique ==
    \A c1, c2 \in candidatesDB : c1.email = c2.email => c1.id = c2.id

(***************************************************************************)
(* C23: formatDateForIST returns identical strings for any two instants    *)
(* that fall on the same calendar day in Asia/Kolkata, whatever the local  *)
(* time zone of the caller that made them.                                 *)
(***************************************************************************)
\* the instant lies between the midnights, in Kolkata, that bound the day
OnKolkataDay(instant, day) ==
    day * 1440 - 330 <= instant /\ instant < (day + 1) * 1440 - 330

SameKolkataDay(d1, d2) ==
    \E day \in 0 .. 3 : OnKolkataDay(d1, day) /\ OnKolkataDay(d2, day)

C23_SameDaySameString ==
    (dateStr.done /\ SameKolkataDay(dateStr.dates[1], dateStr.dates[2]))
        => dateStr.strs[1] = dateStr.strs[2]

\* two instants of one Kolkata day that lie on different UTC days were formatted
C23_Witness ==
    /\ dateStr.done
    /\ SameKolkataDay(dateStr.dates[1], dateStr.dates[2])
    /\ toISODate(dateStr.dates[1]) # toISODate(dateStr.dates[2])

(***************************************************************************)
(* C29: for every checklist instance item, after any sequence of           *)
(* handleToggleItem calls, overlapping or not, from one or several         *)
(* sessions, is_completed is true exactly when completed_by and            *)
(* completed_at are both set, and false exactly when both are null.        *)
(***************************************************************************)
C29_CompletionFieldsAgree ==
    \A x \in instanceItemsDB :
        /\ x.is_completed <=> (x.completed_by # Null /\ x.completed_at # Null)
        /\ ~x.is_completed <=> (x.completed_by = Null /\ x.completed_at = Null)

\* an item that one session still shows as completed has been un-completed by a toggle
C29_Witness ==
    \E u \in Users :
        \E c \in ck[u].instanceItems :
            /\ c.is_completed
            /\ \E x \in instanceItemsDB :
                  /\ x.instance_id = c.instance_id
                  /\ x.template_item_id = c.template_item_id
                  /\ ~x.is_completed

(***************************************************************************)
(* C30: the service worker's fetch handling is cache-first: a request with *)
(* a matching cache entry is answered from the cache without a network     *)
(* request and leaves the cache unchanged; on a miss the network response  *)
(* is returned to the page and is stored only if its status is 200 and its *)
(* type is 'basic'; if the network fetch fails, a document request is      *)
(* answered with the cached '/' entry and any other request with a 503     *)
(* response.                                                               *)
(***************************************************************************)
C30_Step ==
    LET last == (sw').last
    IN  /\ (sw').handled # sw.handled =>
            /\ last.hit =>
                /\ last.answer = [from |-> "cache", response |-> sw.cache[last.url]]
                /\ last.network = "none"
                /\ (sw').cache = sw.cache
                /\ (sw').puts = sw.puts
            /\ (~last.hit /\ last.network = "answered") =>
                /\ last.answer.from = "network"
                /\ \A put \in (sw').puts \ sw.puts :
                      /\ put.response = last.answer.response
                      /\ put.response.status = 200
                      /\ put.response.type = "basic"
            /\ (~last.hit /\ last.network = "failed") =>
                IF last.destination = "document"
                THEN /\ last.answer.from = "cache"
                     /\ last.answer.response # NoEntry
                     /\ last.answer.response = sw.cache["/"]
                ELSE /\ last.answer.from = "worker"
                     /\ last.answer.response.status = 503
        /\ \A url \in DOMAIN sw.cache :
              ((sw').cache[url] # sw.cache[url] /\ sw.state = "installed") =>
                  /\ (sw').cache[url].status = 200
                  /\ (sw').cache[url].type = "basic"

C30_CacheFirst == [][C30_Step]_vars

(***************************************************************************)
(* C22: a candidate's status follows registered, checked_in, in_progress,  *)
(* completed: in any sequence or interleaving of status actions through    *)
(* the tracker's status buttons, from a session with a stale candidate     *)
(* list too, the stored status only moves one step forward and never back. *)
(***************************************************************************)
statusRank(status) ==
    CASE status = "registered" -> 1
      [] status = "checked_in" -> 2
      [] status = "in_progress" -> 3
      [] status = "completed" -> 4

C22_Step ==
    \A c \in candidatesDB : \A d \in candidatesDB' :
        c.id = d.id =>
            \/ d.status = c.status
            \/ statusRank(d.status) = statusRank(c.status) + 1

C22_StatusOnlyForward == [][C22_Step]_vars

(***************************************************************************)
(* C21: once the roster's loadData, the calendar's loadSessions or the     *)
(* tracker's loadCandidates has been started and its remote calls have     *)
(* returned, the loading flag is false, and when the load failed an error  *)
(* indicator is shown: the page a failed load leaves differs from the page *)
(* before the load by more than the loading flag.                          *)
(***************************************************************************)
C21_Roster ==
    \A u \in Users :
        (run[u].pc = "reload" /\ run'[u].pc # "reload") =>
            /\ ~ui'[u].loading
            /\ budget'.failures < budget.failures => ui'[u].notification.type = "error"

C21_Calendar ==
    (calLog'.writes > calLog.writes /\ ~showModal' /\ sessions' # sessionsDB') =>
        calNotification'.type = "error"

C21_Tracker ==
    \A u \in Users :
        (tracker[u].pc \in {"mount", "reload"} /\ tracker'[u].pc = "idle") =>
            /\ ~tracker'[u].loading
            /\ uploadsDB'.failures < uploadsDB.failures =>
                  tracker'[u] # [tracker[u] EXCEPT !.loading = FALSE, !.pc = "idle"]

C21_Step == C21_Roster /\ C21_Calendar /\ C21_Tracker

C21_LoadEndsAndReportsFailure == [][C21_Step]_vars

=============================================================================
